---- MODULE Spec2Model ----
(***************************************************************************)
(* A model of src/debug/vldbutil.py: the read-only decoder of an OpenAFS   *)
(* vldb .DB0 file (class VLDB0 and the record classes it decodes).         *)
(*                                                                         *)
(* The file is a static snapshot: a length, the ubik header, the vl header *)
(* and the records stored at a finite set of addresses (zero bytes         *)
(* everywhere else).  The handle is the VLDB0 object.  Lazy traversals     *)
(* (Python generators) are modelled as generator objects that advance one  *)
(* next() at a time; lookup_name is a synchronous call that runs one loop  *)
(* iteration per step and excludes every other operation while it runs.    *)
(***************************************************************************)
EXTENDS Integers, Sequences, FiniteSets, Bags, TLC

VARIABLES
    file,     \* the .DB0 file: [size, ubik, vlh, rec]
    handle,   \* the VLDB0 object: [st, err, ubik_header, vl_header, mhblocks]
    pos,      \* position of the file object self.fh
    io,       \* the reads issued by the latest operation step: <<[off, size]>>
    gens,     \* the live generator objects, by generator id
    call,     \* the synchronous call in progress (lookup_name), or idle
    hin,      \* the argument of the hash_name calls
    hlog      \* the results of the hash_name calls made so far

vars == <<file, handle, pos, io, gens, call, hin, hlog>>

-----------------------------------------------------------------------------
(* Program constants *)

HASHSIZE == 8191
DBASE_OFFSET == 64
BADSERVERID == 255
NSITES == 13
VLCONTBLOCK == 8
NSLOTS == 255                \* VLHeader._s: '255I', vals[10:265]
MHENTRY_SIZE == 128          \* MHEntry.size
MH_NADDRS == 15              \* MHEntry._s: '15I', vals[7:22]
MAXBLOCK == 4                \* lookup_mh: assert(0 <= block <= 4)
MAXINDEX == 63               \* lookup_mh: assert(1 <= index <= 63)
MHTAG == 255                 \* _server: pa[0] == 0xff
MAXCHAR == 255
HASHMULT == 63
UBIK_SIZE == 16
VLHEADER_SIZE == 132120
VLENTRY_SIZE == 148
MHBLOCK_SIZE == 128
CONTBLOCK_SPAN == 8192
ENTRY_STEP == 148

(* Bounds of the model *)

MaxNameLen == 6      \* longest argument of hash_name
MaxCalls == 2        \* hash_name calls per behaviour
MaxRec == 2          \* records per row of the address lattice, minus one
MaxOut == 4          \* records a chain walk may yield before the consumer stops

None == "None"

Min(a, b) == IF a < b THEN a ELSE b
Max(a, b) == IF a > b THEN a ELSE b

-----------------------------------------------------------------------------
(* 32-bit arithmetic.  A 32-bit value v is the pair <<v \div 2^16, v % 2^16>>,
   so that no intermediate value leaves the range of TLC's integers. *)

LIMB == 2 ^ 16

\* (acc * m + d) % 2^32, for a small multiplier m >= 0 and a small addend d
\* (d may be negative: Python's % yields the non-negative residue).
MulAdd32(acc, m, d) ==
    LET t  == acc[2] * m + d
        lo == t % LIMB
        c  == (t - lo) \div LIMB
    IN  <<(acc[1] * m + c) % LIMB, lo>>

\* v % n for a 32-bit value v and 0 < n < 2^15
Mod32(v, n) == ((v[1] % n) * (LIMB % n) + v[2]) % n

-----------------------------------------------------------------------------
(* VLDB0.hash_name and VLDB0.hash_id *)

RECURSIVE hash_loop_nocheck(_, _, _)
\* the loop without the test of val
hash_loop_nocheck(volname, i, ret) ==
    IF i = 0 THEN [ok |-> TRUE, acc |-> ret]
    ELSE hash_loop_nocheck(volname, i - 1,
                           MulAdd32(ret, HASHMULT, volname[i] - HASHMULT))

RECURSIVE hash_loop(_, _, _)
\* the for loop over reversed(volname): i characters are left, ret is the
\* accumulator; a character above 255 raises TypeError
hash_loop(volname, i, ret) ==
    IF i = 0 THEN [ok |-> TRUE, acc |-> ret]
    ELSE LET val == volname[i] IN
         IF val > MAXCHAR THEN [ok |-> FALSE, err |-> "TypeError"]
         ELSE hash_loop(volname, i - 1, MulAdd32(ret, HASHMULT, val - HASHMULT))

\* hash_name without the final reduction, returning the accumulator's low
\* 16 bits
hash_name_lowbits(volname) ==
    LET r == hash_loop(volname, Len(volname), <<0, 0>>) IN
    IF r.ok THEN [ok |-> TRUE, val |-> r.acc[2]] ELSE r

RECURSIVE hash_fwd(_, _, _)
hash_fwd(volname, i, ret) ==
    IF i > Len(volname) THEN [ok |-> TRUE, acc |-> ret]
    ELSE LET val == volname[i] IN
         IF val > MAXCHAR THEN [ok |-> FALSE, err |-> "TypeError"]
         ELSE hash_fwd(volname, i + 1, MulAdd32(ret, HASHMULT, val - HASHMULT))

\* hash_name iterating the name front to back
hash_name_forward(volname) ==
    LET r == hash_fwd(volname, 1, <<0, 0>>) IN
    IF r.ok THEN [ok |-> TRUE, val |-> Mod32(r.acc, HASHSIZE)] ELSE r

hash_name(volname) ==
    LET r == hash_loop(volname, Len(volname), <<0, 0>>) IN
    IF r.ok THEN [ok |-> TRUE, val |-> Mod32(r.acc, HASHSIZE)] ELSE r

hash_id(volid) == volid % HASHSIZE

-----------------------------------------------------------------------------
(* The file and the Addressed Store (VLDB0.vlread) *)

\* element i of a sparsely stored array of 4-byte ints (absent: 0)
At(arr, i) == IF i \in DOMAIN arr THEN arr[i] ELSE 0

\* an address of the lattice on which the model stores records: i records of
\* 148 bytes and j spans of 8192 bytes after the vl header
P(i, j) == VLHEADER_SIZE + i * ENTRY_STEP + j * CONTBLOCK_SPAN

Zeros(n) == [k \in 1..n |-> 0]

\* a byte array stored compactly: the bytes `at` holds, `fill` elsewhere
Bytes(fill, at) == [fill |-> fill, at |-> at]
ByteAt(arr, k) == IF k \in DOMAIN arr.at THEN arr.at[k] ELSE arr.fill

\* the 148 bytes of a record, in layout order '>11I65s13B13B13B': the eleven
\* ints, a prefix of the 65-byte name field after which every byte is NUL
\* (the prefix may itself hold NULs, also at its end), the three site arrays
ZeroRec == [w |-> Zeros(11), name |-> <<>>,
            serverNumber |-> Bytes(0, <<>>), serverPartition |-> Bytes(0, <<>>),
            serverFlags |-> Bytes(0, <<>>)]

\* the bytes of f stored at logical address `address` (zero where the model
\* stores nothing)
RawAt(f, address) ==
    IF address \in DOMAIN f.rec THEN f.rec[address] ELSE ZeroRec

\* the first eight 4-byte ints stored at `address`; address 0 is the vl header
WordsAt(f, address) ==
    IF address = 0 THEN SubSeq(f.vlh.w, 1, 8)
    ELSE SubSeq(RawAt(f, address).w, 1, 8)

\* number of bytes fh.read(size) returns after fh.seek(off)
ReadLen(f, off, size) == Max(0, Min(size, f.size - off))

\* vlread without its seek: the read starts where the file object stands
vlread_noseek(f, address, size) ==
    LET got == ReadLen(f, pos, size) IN
    [req |-> [off |-> pos, size |-> size], got |-> got, pos |-> pos + got]

\* vlread(address, size): the read it issues, and the file position it leaves
vlread(f, address, size) ==
    LET off == address + DBASE_OFFSET
        got == ReadLen(f, off, size)
    IN  [req |-> [off |-> off, size |-> size], got |-> got, pos |-> off + got]

-----------------------------------------------------------------------------
(* Record decoders *)

\* UbikHeader.__init__ on the 16 bytes '>I2H2I'
UbikHeader(buf) ==
    [magic |-> buf[1], pad1 |-> buf[2], size |-> buf[3],
     v_epoch |-> buf[4], v_counter |-> buf[5]]

\* VLHeader.__init__: ten leading ints, the server table, the four bucket
\* arrays and the trailing SIT pointer
VLHeader(buf) ==
    [vldbversion |-> buf.w[1], headersize |-> buf.w[2], freePtr |-> buf.w[3],
     eofPtr |-> buf.w[4], allocs |-> buf.w[5], frees |-> buf.w[6],
     MaxVolumeId |-> buf.w[7], totalRW |-> buf.w[8], totalRO |-> buf.w[9],
     totalBK |-> buf.w[10],
     IpMappedAddr |-> buf.IpMappedAddr, VolnameHash |-> buf.VolnameHash,
     VolidHashRW |-> buf.VolidHashRW, VolidHashRO |-> buf.VolidHashRO,
     VolidHashBK |-> buf.VolidHashBK, SIT |-> buf.SIT]

\* str.rstrip('\x00'): the string up to its last character that is not NUL
\* (the same for the whole field as for a prefix followed by NULs only)
RStripNul(s) ==
    LET keep == {k \in 1..Len(s) : s[k] # 0}
        n == IF keep = {} THEN 0
             ELSE CHOOSE k \in keep : \A j \in keep : j <= k
    IN  SubSeq(s, 1, n)

\* bytes.decode('ascii') accepts the bytes (the NUL padding is ASCII)
IsAscii(s) == \A k \in 1..Len(s) : s[k] < 128

\* VLEntry.__init__ (the name already checked to be ASCII)
VLEntry(buf, address) ==
    [address |-> address, offset |-> address + DBASE_OFFSET,
     rwid |-> buf.w[1], roid |-> buf.w[2], bkid |-> buf.w[3],
     flags |-> buf.w[4], LockAfsId |-> buf.w[5], LockTimestamp |-> buf.w[6],
     cloneId |-> buf.w[7], nextIdHashRW |-> buf.w[8],
     nextIdHashRO |-> buf.w[9], nextIdHashBK |-> buf.w[10],
     nextNameHash |-> buf.w[11],
     name |-> RStripNul(buf.name),
     serverNumber |-> buf.serverNumber,
     serverPartition |-> buf.serverPartition,
     serverFlags |-> buf.serverFlags]

\* MHBlockHeader.__init__ taking contaddr one int early (vals[3:7])
MHBlockHeader_slice(words, address) ==
    [address |-> address, offset |-> address + DBASE_OFFSET,
     count |-> words[1], flags |-> words[4],
     contaddr |-> SubSeq(words, 4, 7)]

\* MHBlockHeader.__init__ on the 128 bytes '>1I 2I 1I 4I 24I', before its assert
MHBlockHeader(words, address) ==
    [address |-> address, offset |-> address + DBASE_OFFSET,
     count |-> words[1], flags |-> words[4],
     contaddr |-> SubSeq(words, 5, 8)]

\* vlreadentry decoding whatever the read returned, short or not
vlreadentry_pad(f, address) ==
    LET r == vlread(f, address, VLENTRY_SIZE)
        raw == RawAt(f, address)
    IN  IF ~IsAscii(raw.name)
        THEN [ok |-> FALSE, err |-> "UnicodeDecodeError", rd |-> r]
        ELSE [ok |-> TRUE, val |-> VLEntry(raw, address), rd |-> r]

\* vlreadentry(address): the read, and the VLEntry (of the bytes read) or
\* the error raised
vlreadentry(f, address) ==
    LET r == vlread(f, address, VLENTRY_SIZE)
        raw == RawAt(f, r.req.off - DBASE_OFFSET)
    IN  IF r.got # VLENTRY_SIZE
        THEN [ok |-> FALSE, err |-> "struct.error", rd |-> r]
        ELSE IF ~IsAscii(raw.name)
        THEN [ok |-> FALSE, err |-> "UnicodeDecodeError", rd |-> r]
        ELSE [ok |-> TRUE, val |-> VLEntry(raw, address), rd |-> r]

-----------------------------------------------------------------------------
(* VLDB0.__init__ *)

Failed(err, reads, p) ==
    [st |-> "failed", err |-> err, ubik_header |-> None, vl_header |-> None,
     mhblocks |-> None, io |-> reads, pos |-> p]

\* the constructor run on file f: the object it leaves (or the error it
\* raises), the reads it issued in order and the final file position
OpenResult(f) ==
    LET q1 == [off |-> 0, size |-> UBIK_SIZE]
        g1 == ReadLen(f, 0, UBIK_SIZE)
        r2 == vlread(f, 0, VLHEADER_SIZE)
    IN  IF g1 # UBIK_SIZE THEN Failed("struct.error", <<q1>>, g1)
        ELSE IF r2.got # VLHEADER_SIZE
        THEN Failed("struct.error", <<q1, r2.req>>, r2.pos)
        ELSE LET vl == VLHeader(f.vlh)
                 address == vl.SIT
                 r3 == vlread(f, address, MHBLOCK_SIZE)
                 block == MHBlockHeader(WordsAt(f, address), address)
                 reads == <<q1, r2.req, r3.req>>
             IN  IF r3.got # MHBLOCK_SIZE
                 THEN Failed("struct.error", reads, r3.pos)
                 ELSE IF block.flags # VLCONTBLOCK
                 THEN Failed("AssertionError", reads, r3.pos)
                 ELSE [st |-> "open", err |-> None,
                       ubik_header |-> UbikHeader(f.ubik), vl_header |-> vl,
                       mhblocks |-> block.contaddr,
                       io |-> reads, pos |-> r3.pos]

Closed ==
    [st |-> "closed", err |-> None, ubik_header |-> None, vl_header |-> None,
     mhblocks |-> None]

HandleOf(r) ==
    [st |-> r.st, err |-> r.err, ubik_header |-> r.ubik_header,
     vl_header |-> r.vl_header, mhblocks |-> r.mhblocks]

Idle == [st |-> "idle"]
NoGen ==
    [kind |-> "none", fn |-> "none", st |-> "none", err |-> None,
     arg |-> <<>>, addr |-> 0, out |-> <<>>, visited |-> <<>>]
GenIds == {1, 2}

\* vldb = VLDB0(filename)
Open ==
    /\ handle.st = "closed"
    /\ LET r == OpenResult(file) IN
        /\ handle' = HandleOf(r)
        /\ io' = r.io
        /\ pos' = r.pos
    /\ UNCHANGED <<file, gens, call, hin, hlog>>

\* queries need the object and run one at a time
Ready == handle.st = "open" /\ call.st # "walking"

-----------------------------------------------------------------------------
(* Chain walks: _walk_hash and its specializations *)

ChainFields == {"nextNameHash", "nextIdHashRW", "nextIdHashRO", "nextIdHashBK"}

\* walk_namehash following the read-write id chain
walk_namehash_field_rw == "nextIdHashRW"

\* the generator functions built on _walk_hash, and the field each passes
walk_namehash_field == "nextNameHash"
walk_rwidhash_field_ro == "nextIdHashRO"
walk_rwidhash_field == "nextIdHashRW"
WalkerField ==
    [walk_namehash |-> walk_namehash_field,
     walk_rwidhash |-> walk_rwidhash_field,
     walk_freelist |-> walk_rwidhash_field]

\* the addresses a caller passes in: 0, the stored records, one past the file
AddrInputs == {0} \cup DOMAIN file.rec \cup {file.size}

\* a generator object not yet resumed; arg is <<>> when the caller passed
\* no address
NewGen(fn, kind, arg) ==
    [kind |-> kind, fn |-> fn, st |-> "new", err |-> None, arg |-> arg,
     addr |-> IF arg = <<>> THEN 0 ELSE arg[1], out |-> <<>>,
     visited |-> <<>>]

\* g = vldb.walk_namehash(addr): nothing runs before the first next()
StartNamehash(g) ==
    /\ Ready /\ gens[g].kind = "none"
    /\ \E addr \in AddrInputs :
           gens' = [gens EXCEPT ![g] = NewGen("walk_namehash", "hash", <<addr>>)]
    /\ io' = <<>>
    /\ UNCHANGED <<file, handle, pos, call, hin, hlog>>

\* g = vldb.walk_rwidhash(addr)
StartRwidhash(g) ==
    /\ Ready /\ gens[g].kind = "none"
    /\ \E addr \in AddrInputs :
           gens' = [gens EXCEPT ![g] = NewGen("walk_rwidhash", "hash", <<addr>>)]
    /\ io' = <<>>
    /\ UNCHANGED <<file, handle, pos, call, hin, hlog>>

\* walk_freelist starting at the first record address
walk_freelist_head_hdr == handle.vl_header.headersize

\* the head walk_freelist passes to walk_rwidhash
walk_freelist_head == handle.vl_header.freePtr

\* g = vldb.walk_freelist()
StartFreelist(g) ==
    /\ Ready /\ gens[g].kind = "none"
    /\ gens' = [gens EXCEPT ![g] = NewGen("walk_freelist", "hash", <<>>)]
    /\ io' = <<>>
    /\ UNCHANGED <<file, handle, pos, call, hin, hlog>>

\* _walk_hash ending the loop at the record whose next pointer is 0, without
\* yielding it
walk_hash_lastdropped(field_name, g0) ==
    LET gen == IF g0.st = "new" /\ g0.arg = <<>>
               THEN [g0 EXCEPT !.addr = walk_freelist_head] ELSE g0
    IN
    IF gen.addr = 0
    THEN [gen |-> [gen EXCEPT !.st = "done"], io |-> <<>>, pos |-> pos]
    ELSE LET e == vlreadentry(file, gen.addr) IN
         IF ~e.ok
         THEN [gen |-> [gen EXCEPT !.st = "error", !.err = e.err,
                                   !.visited = Append(@, gen.addr)],
               io |-> <<e.rd.req>>, pos |-> e.rd.pos]
         ELSE IF e.val[field_name] = 0
         THEN [gen |-> [gen EXCEPT !.st = "done",
                                   !.visited = Append(@, gen.addr)],
               io |-> <<e.rd.req>>, pos |-> e.rd.pos]
         ELSE [gen |-> [gen EXCEPT !.st = "running",
                                   !.out = Append(@, e.val),
                                   !.visited = Append(@, gen.addr),
                                   !.addr = e.val[field_name]],
               io |-> <<e.rd.req>>, pos |-> e.rd.pos]

\* _walk_hash ending the loop at a pointer that does not lead forward
walk_hash_forward(field_name, g0) ==
    LET gen == IF g0.st = "new" /\ g0.arg = <<>>
               THEN [g0 EXCEPT !.addr = walk_freelist_head] ELSE g0
    IN
    IF gen.addr = 0 \/ (gen.out # <<>> /\ gen.addr <= gen.out[Len(gen.out)].address)
    THEN [gen |-> [gen EXCEPT !.st = "done"], io |-> <<>>, pos |-> pos]
    ELSE LET e == vlreadentry(file, gen.addr) IN
         IF ~e.ok
         THEN [gen |-> [gen EXCEPT !.st = "error", !.err = e.err,
                                   !.visited = Append(@, gen.addr)],
               io |-> <<e.rd.req>>, pos |-> e.rd.pos]
         ELSE [gen |-> [gen EXCEPT !.st = "running",
                                   !.out = Append(@, e.val),
                                   !.visited = Append(@, gen.addr),
                                   !.addr = e.val[field_name]],
               io |-> <<e.rd.req>>, pos |-> e.rd.pos]

\* one resumption of _walk_hash(field_name, addr): the loop test, the read
\* and the yield, or the end of the loop, or the error of the read; the
\* first resumption of walk_freelist binds addr to the free-list head
walk_hash(field_name, g0) ==
    LET gen == IF g0.st = "new" /\ g0.arg = <<>>
               THEN [g0 EXCEPT !.addr = walk_freelist_head] ELSE g0
    IN
    IF gen.addr = 0
    THEN [gen |-> [gen EXCEPT !.st = "done"], io |-> <<>>, pos |-> pos]
    ELSE LET e == vlreadentry(file, gen.addr) IN
         IF ~e.ok
         THEN [gen |-> [gen EXCEPT !.st = "error", !.err = e.err,
                                   !.visited = Append(@, gen.addr)],
               io |-> <<e.rd.req>>, pos |-> e.rd.pos]
         ELSE [gen |-> [gen EXCEPT !.st = "running",
                                   !.out = Append(@, e.val),
                                   !.visited = Append(@, gen.addr),
                                   !.addr = e.val[field_name]],
               io |-> <<e.rd.req>>, pos |-> e.rd.pos]

\* next(g) on a chain walk
HashNext(g) ==
    /\ Ready /\ gens[g].kind = "hash"
    /\ gens[g].st \in {"new", "running"}
    /\ Len(gens[g].out) < MaxOut
    /\ LET r == walk_hash(WalkerField[gens[g].fn], gens[g]) IN
        /\ gens' = [gens EXCEPT ![g] = r.gen]
        /\ io' = r.io
        /\ pos' = r.pos
    /\ UNCHANGED <<file, handle, call, hin, hlog>>

\* next(g) on a chain walk by a consumer that keeps the latest record only
\* ("for entry in g: ..." without a list): out holds that record
HashPoll(g) ==
    /\ Ready /\ gens[g].kind = "hash"
    /\ gens[g].st \in {"new", "running"}
    /\ \E r \in {walk_hash(WalkerField[gens[g].fn], gens[g])} :
        /\ gens' = [gens EXCEPT ![g] =
                      [r.gen EXCEPT !.out = IF r.gen.out = <<>> THEN <<>>
                                            ELSE <<r.gen.out[Len(r.gen.out)]>>,
                                    !.visited = <<>>]]
        /\ io' = r.io
        /\ pos' = r.pos
    /\ UNCHANGED <<file, handle, call, hin, hlog>>

\* the consumer drops the generator (finished or not)
GenClose(g) ==
    /\ Ready /\ gens[g].kind # "none"
    /\ gens' = [gens EXCEPT ![g] = NoGen]
    /\ io' = <<>>
    /\ UNCHANGED <<file, handle, pos, call, hin, hlog>>

-----------------------------------------------------------------------------
(* The sequential scan: walk_entries *)

RECURSIVE scan_loop_yieldall(_, _, _)
\* walk_entries yielding the continuation blocks too
scan_loop_yieldall(gen, reads, p) ==
    IF ~(gen.addr < handle.vl_header.eofPtr)
    THEN [gen |-> [gen EXCEPT !.st = "done"], io |-> reads, pos |-> p]
    ELSE LET e == vlreadentry(file, gen.addr)
             seen == [gen EXCEPT !.visited = Append(@, gen.addr)]
         IN  IF ~e.ok
             THEN [gen |-> [seen EXCEPT !.st = "error", !.err = e.err],
                   io |-> Append(reads, e.rd.req), pos |-> e.rd.pos]
             ELSE [gen |-> [seen EXCEPT !.st = "running",
                                        !.addr = IF e.val.flags = VLCONTBLOCK
                                                 THEN @ + CONTBLOCK_SPAN
                                                 ELSE @ + ENTRY_STEP,
                                        !.out = Append(@, e.val)],
                   io |-> Append(reads, e.rd.req), pos |-> e.rd.pos]

RECURSIVE scan_loop_inclusive(_, _, _)
\* walk_entries with the loop test addr <= eofPtr
scan_loop_inclusive(gen, reads, p) ==
    IF ~(gen.addr <= handle.vl_header.eofPtr)
    THEN [gen |-> [gen EXCEPT !.st = "done"], io |-> reads, pos |-> p]
    ELSE LET e == vlreadentry(file, gen.addr)
             seen == [gen EXCEPT !.visited = Append(@, gen.addr)]
         IN  IF ~e.ok
             THEN [gen |-> [seen EXCEPT !.st = "error", !.err = e.err],
                   io |-> Append(reads, e.rd.req), pos |-> e.rd.pos]
             ELSE IF e.val.flags = VLCONTBLOCK
             THEN scan_loop_inclusive([seen EXCEPT !.addr = @ + CONTBLOCK_SPAN],
                                      Append(reads, e.rd.req), e.rd.pos)
             ELSE [gen |-> [seen EXCEPT !.st = "running",
                                        !.addr = @ + ENTRY_STEP,
                                        !.out = Append(@, e.val)],
                   io |-> Append(reads, e.rd.req), pos |-> e.rd.pos]

RECURSIVE scan_loop_follow(_, _, _)
\* walk_entries going from a record to the one its name-chain pointer names
\* (when it names one)
scan_loop_follow(gen, reads, p) ==
    IF ~(gen.addr < handle.vl_header.eofPtr)
    THEN [gen |-> [gen EXCEPT !.st = "done"], io |-> reads, pos |-> p]
    ELSE LET e == vlreadentry(file, gen.addr)
             seen == [gen EXCEPT !.visited = Append(@, gen.addr)]
         IN  IF ~e.ok
             THEN [gen |-> [seen EXCEPT !.st = "error", !.err = e.err],
                   io |-> Append(reads, e.rd.req), pos |-> e.rd.pos]
             ELSE IF e.val.flags = VLCONTBLOCK
             THEN scan_loop_follow([seen EXCEPT !.addr = @ + CONTBLOCK_SPAN],
                                   Append(reads, e.rd.req), e.rd.pos)
             ELSE [gen |-> [seen EXCEPT !.st = "running",
                                        !.addr = IF e.val.nextNameHash # 0
                                                 THEN e.val.nextNameHash
                                                 ELSE @ + ENTRY_STEP,
                                        !.out = IF Len(@) < MaxOut
                                                THEN Append(@, e.val) ELSE @,
                                        !.visited = IF Len(@) < MaxOut
                                                    THEN @ ELSE gen.visited],
                   io |-> Append(reads, e.rd.req), pos |-> e.rd.pos]

RECURSIVE scan_loop(_, _, _)
\* the while loop of walk_entries from gen.addr up to its next yield, its end
\* or the error of a read; reads and p are the reads issued so far in this
\* resumption and the file position
scan_loop(gen, reads, p) ==
    IF ~(gen.addr < handle.vl_header.eofPtr)
    THEN [gen |-> [gen EXCEPT !.st = "done"], io |-> reads, pos |-> p]
    ELSE LET e == vlreadentry(file, gen.addr)
             seen == [gen EXCEPT !.visited = Append(@, gen.addr)]
         IN  IF ~e.ok
             THEN [gen |-> [seen EXCEPT !.st = "error", !.err = e.err],
                   io |-> Append(reads, e.rd.req), pos |-> e.rd.pos]
             ELSE IF e.val.flags = VLCONTBLOCK
             THEN scan_loop([seen EXCEPT !.addr = @ + CONTBLOCK_SPAN],
                            Append(reads, e.rd.req), e.rd.pos)
             ELSE [gen |-> [seen EXCEPT !.st = "running",
                                        !.addr = @ + ENTRY_STEP,
                                        !.out = Append(@, e.val)],
                   io |-> Append(reads, e.rd.req), pos |-> e.rd.pos]

\* one resumption of walk_entries(start); the first one picks the start
walk_entries(gen) ==
    LET g0 == IF gen.st = "new" /\ gen.arg = <<>>
              THEN [gen EXCEPT !.addr = handle.vl_header.headersize]
              ELSE gen
    IN  scan_loop(g0, <<>>, pos)

\* g = vldb.walk_entries() or vldb.walk_entries(start)
StartScan(g) ==
    /\ Ready /\ gens[g].kind = "none"
    /\ \E arg \in {<<>>} \cup {<<a>> : a \in AddrInputs \ {0}} :
           gens' = [gens EXCEPT ![g] = NewGen("walk_entries", "scan", arg)]
    /\ io' = <<>>
    /\ UNCHANGED <<file, handle, pos, call, hin, hlog>>

\* next(g) on a sequential scan
ScanNext(g) ==
    /\ Ready /\ gens[g].kind = "scan"
    /\ gens[g].st \in {"new", "running"}
    /\ \E r \in {walk_entries(gens[g])} :
        /\ gens' = [gens EXCEPT ![g] = r.gen]
        /\ io' = r.io
        /\ pos' = r.pos
    /\ UNCHANGED <<file, handle, call, hin, hlog>>

-----------------------------------------------------------------------------
(* lookup_name *)

\* the names callers look up
NameA == <<100, 99>>          \* "dc"
NameB == <<118, 108, 100>>    \* "vld", in the bucket of "dc"
NameC == <<97>>               \* "a"
LookupNames == {NameA, NameB, NameC}

\* entry of lookup_name(volname): the hash, the bucket head, the generator
lookup_name(volname) ==
    LET idx == hash_name(volname) IN
    IF ~idx.ok
    THEN [st |-> "raised", name |-> volname, err |-> idx.err]
    ELSE [st |-> "walking", name |-> volname,
          gen |-> NewGen("walk_namehash", "hash",
                         <<At(handle.vl_header.VolnameHash, idx.val)>>)]

\* vldb.lookup_name(volname) called with one of the names of the files
LookupCall ==
    /\ Ready
    /\ \E volname \in LookupNames : call' = lookup_name(volname)
    /\ io' = <<>>
    /\ UNCHANGED <<file, handle, pos, gens, hin, hlog>>

\* vldb.lookup_name(volname) called with the name under study
LookupHin ==
    /\ Ready
    /\ call' = lookup_name(hin)
    /\ io' = <<>>
    /\ UNCHANGED <<file, handle, pos, gens, hin, hlog>>

\* one iteration of its for loop over walk_namehash(addr); the entries it
\* passes over are dropped. ret is <<>> for None and <<entry>> for an entry
LookupStep ==
    /\ handle.st = "open" /\ call.st = "walking"
    /\ \E r \in {walk_hash(WalkerField[call.gen.fn], call.gen)} :
        LET n == Len(r.gen.out)
        IN  /\ call' =
                 IF r.gen.st = "done"
                 THEN [st |-> "returned", name |-> call.name, ret |-> <<>>]
                 ELSE IF r.gen.st = "error"
                 THEN [st |-> "raised", name |-> call.name, err |-> r.gen.err]
                 ELSE IF r.gen.out[n].name = call.name
                 THEN [st |-> "returned", name |-> call.name,
                       ret |-> <<r.gen.out[n]>>]
                 ELSE [call EXCEPT !.gen = [r.gen EXCEPT !.out = <<>>,
                                                         !.visited = <<>>]]
            /\ io' = r.io
            /\ pos' = r.pos
    /\ UNCHANGED <<file, handle, gens, hin, hlog>>

-----------------------------------------------------------------------------
(* Server resolution: _server, lookup_mh, lookup_server, walk_servers *)

\* A packed address is a 4-byte int; as a 32-bit value it is kept as the pair
\* <<v \div 2^16, v % 2^16>>.  Element i of the server table (absent: 0):
IpAt(arr, i) == IF i \in DOMAIN arr THEN arr[i] ELSE <<0, 0>>

\* struct.pack('<I', addr): least significant byte first
Pack_le(addr) ==
    <<addr[2] % 256, addr[2] \div 256, addr[1] % 256, addr[1] \div 256>>

\* struct.pack('>I', addr): the four bytes, most significant first
Pack(addr) ==
    <<addr[1] \div 256, addr[1] % 256, addr[2] \div 256, addr[2] % 256>>

\* socket.inet_ntoa(pa): the dotted quad, as its four decimal numbers
inet_ntoa(pa) == <<pa[1], pa[2], pa[3], pa[4]>>

\* the 128 bytes of a multi-homed entry as the model stores them: the six
\* uuid fields, the uniquifier, the 15 packed addresses (absent: 0) and the
\* two ints after them
ZeroMh == [uuid |-> <<0, 0, 0, 0, 0, <<0, 0, 0, 0, 0, 0>> >>,
           uniquifier |-> 0, addrs |-> <<>>, tail |-> <<0, 0>>]

\* the bytes of f at a logical address, read as a multi-homed entry
MhRawAt(f, address) ==
    IF "mh" \in DOMAIN f /\ address \in DOMAIN f.mh THEN f.mh[address]
    ELSE ZeroMh

\* UUID.__init__
UUID(time_low, time_mid, time_hi, clock_hi, clock_low, node) ==
    [time_low |-> time_low, time_mid |-> time_mid, time_hi |-> time_hi,
     clock_hi |-> clock_hi, clock_low |-> clock_low, node |-> node]

\* MHEntry.__init__ on the 128 bytes '>I H H s s 6s I 15I I 11I'
MHEntry(buf, address) ==
    LET unpacked == [k \in 1..MH_NADDRS |-> IpAt(buf.addrs, k)]
        nonzero == SelectSeq(unpacked, LAMBDA ua : ua # <<0, 0>>)
    IN  [address |-> address, offset |-> address + DBASE_OFFSET,
         uuid |-> UUID(buf.uuid[1], buf.uuid[2], buf.uuid[3], buf.uuid[4],
                       buf.uuid[5], buf.uuid[6]),
         uniquifier |-> buf.uniquifier,
         unpacked_addrs |-> unpacked,
         flags |-> buf.tail[2],
         addrs |-> [k \in 1..Len(nonzero) |-> inet_ntoa(Pack(nonzero[k]))]]

\* mhreadentry(address): the read, and the MHEntry or the error raised
mhreadentry(f, address) ==
    LET r == vlread(f, address, MHENTRY_SIZE) IN
    IF r.got # MHENTRY_SIZE
    THEN [ok |-> FALSE, err |-> "struct.error", reads |-> <<r.req>>,
          pos |-> r.pos]
    ELSE [ok |-> TRUE, val |-> MHEntry(MhRawAt(f, r.req.off - DBASE_OFFSET),
                                       address),
          reads |-> <<r.req>>, pos |-> r.pos]

\* lookup_mh taking the base of block - 1 (a 1-based table)
lookup_mh_base1(block, index) ==
    IF ~(0 <= block /\ block <= MAXBLOCK) \/ ~(1 <= index /\ index <= MAXINDEX)
    THEN [ok |-> FALSE, err |-> "AssertionError", reads |-> <<>>, pos |-> pos]
    ELSE IF block \notin DOMAIN handle.mhblocks
    THEN [ok |-> FALSE, err |-> "IndexError", reads |-> <<>>, pos |-> pos]
    ELSE mhreadentry(file, handle.mhblocks[block] + index * MHENTRY_SIZE)

\* lookup_mh without its two asserts
lookup_mh_noassert(block, index) ==
    IF block + 1 \notin DOMAIN handle.mhblocks
    THEN [ok |-> FALSE, err |-> "IndexError", reads |-> <<>>, pos |-> pos]
    ELSE mhreadentry(file, handle.mhblocks[block + 1] + index * MHENTRY_SIZE)

\* lookup_mh(block, index): the two asserts, then self.mhblocks[block] on the
\* tuple of four (the model's sequence starts at 1), then the read
lookup_mh(block, index) ==
    IF ~(0 <= block /\ block <= MAXBLOCK) \/ ~(1 <= index /\ index <= MAXINDEX)
    THEN [ok |-> FALSE, err |-> "AssertionError", reads |-> <<>>, pos |-> pos]
    ELSE IF block + 1 \notin DOMAIN handle.mhblocks
    THEN [ok |-> FALSE, err |-> "IndexError", reads |-> <<>>, pos |-> pos]
    ELSE mhreadentry(file, handle.mhblocks[block + 1] + index * MHENTRY_SIZE)

\* Server(number, uuid, addrs); uuid is <<>> for None and <<u>> for a UUID
Server(number, uuid, addrs) ==
    [number |-> number, uuid |-> uuid, addrs |-> addrs]

\* _server without the test for a zero address
server_nozero(number, addr) ==
    LET pa == Pack(addr) IN
    IF pa[1] = MHTAG
    THEN LET mh == lookup_mh(pa[2] * 256 + pa[3], pa[4]) IN
         IF mh.ok
         THEN [ok |-> TRUE, reads |-> mh.reads, pos |-> mh.pos,
               val |-> Server(number, <<mh.val.uuid>>, mh.val.addrs)]
         ELSE mh
    ELSE [ok |-> TRUE, reads |-> <<>>, pos |-> pos,
          val |-> Server(number, <<>>, <<inet_ntoa(pa)>>)]

\* _server(number, addr): the Server or the error, and the reads issued
server(number, addr) ==
    IF addr # <<0, 0>>
    THEN LET pa == Pack(addr) IN
         IF pa[1] = MHTAG
         THEN LET block == pa[2] * 256 + pa[3]      \* struct.unpack('>x H B')
                  index == pa[4]
                  mh == lookup_mh(block, index)
              IN  IF mh.ok
                  THEN [ok |-> TRUE, reads |-> mh.reads, pos |-> mh.pos,
                        val |-> Server(number, <<mh.val.uuid>>, mh.val.addrs)]
                  ELSE mh
         ELSE [ok |-> TRUE, reads |-> <<>>, pos |-> pos,
               val |-> Server(number, <<>>, <<inet_ntoa(pa)>>)]
    ELSE [ok |-> TRUE, reads |-> <<>>, pos |-> pos,
          val |-> Server(number, <<>>, <<>>)]

\* the slot numbers callers pass to lookup_server
SlotInputs == {0, 1, NSLOTS - 1}

\* lookup_server(number), for a number within the table
lookup_server(number) ==
    server(number, IpAt(handle.vl_header.IpMappedAddr, number))

\* vldb.lookup_server(number) called, returning or raising
LookupServer ==
    /\ Ready
    /\ \E number \in SlotInputs :
         \E r \in {lookup_server(number)} :
            /\ call' = IF r.ok
                       THEN [st |-> "returned", fn |-> "lookup_server",
                             number |-> number, ret |-> <<r.val>>,
                             reads |-> r.reads]
                       ELSE [st |-> "raised", fn |-> "lookup_server",
                             number |-> number, err |-> r.err,
                             reads |-> r.reads]
            /\ io' = r.reads
            /\ pos' = r.pos
    /\ UNCHANGED <<file, handle, gens, hin, hlog>>

\* g = vldb.walk_servers()
StartServers(g) ==
    /\ Ready /\ gens[g].kind = "none"
    /\ gens' = [gens EXCEPT ![g] = NewGen("walk_servers", "servers", <<>>)]
    /\ io' = <<>>
    /\ UNCHANGED <<file, handle, pos, call, hin, hlog>>

\* one resumption of walk_servers: gen.addr is the index enumerate() is at
walk_servers(gen) ==
    IF gen.addr >= NSLOTS
    THEN [gen |-> [gen EXCEPT !.st = "done"], io |-> <<>>, pos |-> pos]
    ELSE LET r == server(gen.addr,
                         IpAt(handle.vl_header.IpMappedAddr, gen.addr))
         IN  IF r.ok
             THEN [gen |-> [gen EXCEPT !.st = "running", !.addr = @ + 1,
                                       !.out = Append(@, r.val)],
                   io |-> r.reads, pos |-> r.pos]
             ELSE [gen |-> [gen EXCEPT !.st = "error", !.err = r.err],
                   io |-> r.reads, pos |-> r.pos]

\* next(g) on walk_servers
ServersNext(g) ==
    /\ Ready /\ gens[g].kind = "servers"
    /\ gens[g].st \in {"new", "running"}
    /\ \E r \in {walk_servers(gens[g])} :
        /\ gens' = [gens EXCEPT ![g] = r.gen]
        /\ io' = r.io
        /\ pos' = r.pos
    /\ UNCHANGED <<file, handle, call, hin, hlog>>

-----------------------------------------------------------------------------
(* The server reference report of main *)

Site(number, partition, flags) ==
    [number |-> number, partition |-> partition, flags |-> flags]

\* VLEntry.sites without the test against BADSERVERID
sites_all(entry) ==
    [i \in 1..NSITES |->
        Site(ByteAt(entry.serverNumber, i - 1),
             ByteAt(entry.serverPartition, i - 1),
             ByteAt(entry.serverFlags, i - 1))]

\* VLEntry.sites: the sites of the positions whose server number is not
\* BADSERVERID, in position order
sites(entry) ==
    SelectSeq([i \in 1..NSITES |->
                  Site(ByteAt(entry.serverNumber, i - 1),
                       ByteAt(entry.serverPartition, i - 1),
                       ByteAt(entry.serverFlags, i - 1))],
              LAMBDA site : site.number # BADSERVERID)

RECURSIVE count_sites(_, _)
\* the inner loop: count[site.number] = count.get(site.number, 0) + 1 for
\* each site in turn; the dict is a bag of slot numbers
count_sites(count, ss) ==
    IF ss = <<>> THEN count
    ELSE count_sites(count (+) SetToBag({Head(ss).number}), Tail(ss))

\* print("server references:"); count = {}; the scan is created
ReportStart ==
    /\ Ready /\ call.st = "idle" /\ gens[1].kind = "none"
    /\ call' = [st |-> "counting", fn |-> "report", count |-> EmptyBag,
                lines |-> <<>>, err |-> None]
    /\ gens' = [gens EXCEPT ![1] = NewGen("walk_entries", "scan", <<>>)]
    /\ io' = <<>>
    /\ UNCHANGED <<file, handle, pos, hin, hlog>>

\* one turn of "for entry in vldb.walk_entries()": the generator resumes;
\* an entry's sites are counted, the end of the scan creates walk_servers,
\* an error leaves main
ReportCount ==
    /\ Ready /\ call.st = "counting"
    /\ \E r \in {walk_entries(gens[1])} :
        /\ io' = r.io
        /\ pos' = r.pos
        /\ IF r.gen.st = "running"
           THEN /\ gens' = [gens EXCEPT ![1] = r.gen]
                /\ call' = [call EXCEPT !.count =
                       count_sites(@, sites(r.gen.out[Len(r.gen.out)]))]
           ELSE IF r.gen.st = "done"
           THEN /\ gens' = [gens EXCEPT
                              ![1] = NewGen("walk_servers", "servers", <<>>)]
                /\ call' = [call EXCEPT !.st = "listing"]
           ELSE /\ gens' = [gens EXCEPT ![1] = r.gen]
                /\ call' = [call EXCEPT !.st = "raised", !.err = r.gen.err]
    /\ UNCHANGED <<file, handle, hin, hlog>>

\* one turn of "for server in vldb.walk_servers()": a server with a uuid or
\* an address is printed with count.get(server.number, 0)
ReportServer ==
    /\ Ready /\ call.st = "listing"
    /\ \E r \in {walk_servers(gens[1])} :
        /\ io' = r.io
        /\ pos' = r.pos
        /\ gens' = [gens EXCEPT ![1] = [r.gen EXCEPT !.out = <<>>]]
        /\ IF r.gen.st = "running"
           THEN \E sv \in {r.gen.out[Len(r.gen.out)]} :
                call' = IF sv.uuid # <<>> \/ sv.addrs # <<>>
                        THEN [call EXCEPT !.lines = Append(@,
                                [number |-> sv.number,
                                 count |-> CopiesIn(sv.number, call.count),
                                 uuid |-> sv.uuid, addrs |-> sv.addrs])]
                        ELSE call
           ELSE IF r.gen.st = "done"
           THEN call' = [call EXCEPT !.st = "returned"]
           ELSE call' = [call EXCEPT !.st = "raised", !.err = r.gen.err]
    /\ UNCHANGED <<file, handle, hin, hlog>>

-----------------------------------------------------------------------------
(* hash_name called directly *)

\* one call of the class method, with the name under study or with another;
\* hlog keeps what each call was given and what it returned or raised
HashCall ==
    /\ Len(hlog) < MaxCalls
    /\ \E volname \in {hin, NameC} :
          hlog' = Append(hlog, [st |-> handle.st, volname |-> volname,
                                res |-> hash_name(volname)])
    /\ io' = <<>>
    /\ UNCHANGED <<file, handle, pos, gens, call, hin>>

-----------------------------------------------------------------------------
(* The files the behaviours start from *)

\* a volume record with no sites
Rec(ids, flags, nRW, nRO, nBK, nName, name) ==
    [w |-> <<ids[1], ids[2], ids[3], flags, 0, 0, 0, nRW, nRO, nBK, nName>>,
     name |-> name,
     serverNumber |-> Bytes(BADSERVERID, <<>>),
     serverPartition |-> Bytes(0, <<>>), serverFlags |-> Bytes(0, <<>>)]

\* the first 148 bytes of a continuation block: its header
Block(flags, contaddr) ==
    [w |-> <<0, 0, 0, flags, contaddr[1], contaddr[2], contaddr[3],
             contaddr[4], 0, 0, 0>>,
     name |-> <<>>, serverNumber |-> Bytes(0, <<>>),
     serverPartition |-> Bytes(0, <<>>), serverFlags |-> Bytes(0, <<>>)]

Hdr(headersize, freePtr, eofPtr, SIT, nameh, rwh) ==
    [w |-> <<4, headersize, freePtr, eofPtr, 0, 0, 0, 0, 0, 0>>,
     IpMappedAddr |-> <<>>, VolnameHash |-> nameh, VolidHashRW |-> rwh,
     VolidHashRO |-> <<>>, VolidHashBK |-> <<>>, SIT |-> SIT]

UbikMagic == 3491141 + 0   \* 0x354545, the magic ubik writes
Ubik(magic) == <<magic, 0, DBASE_OFFSET, 1, 1>>

\* the layout: the first continuation block right after the vl header, then
\* the volume records
BlockAddr == P(0, 0)
RecIdx == 0..MaxRec
NRec == MaxRec + 1
E(i) == P(i, 1)
EndAddr == P(NRec, 1)
FullSize == EndAddr + DBASE_OFFSET
RecPtr == {0} \cup {E(i) : i \in RecIdx}
Ptr == RecPtr \cup {EndAddr}

RecName(i) == <<118, 48 + i>>     \* "v0", "v1", ...

\* chains: record i has name-chain pointer nn[i] and RW-chain pointer
\* nn[i+1 mod NRec]; its RO pointer names the next record, its BK pointer 0
RwId(i) == HASHSIZE + 1 + i * HASHSIZE
WalkFile(nn, fp) ==
    [size |-> FullSize, ubik |-> Ubik(UbikMagic),
     vlh |-> Hdr(P(0, 0), fp, EndAddr, BlockAddr, <<>>,
                 [b \in {hash_id(RwId(0))} |-> E(0)]),
     rec |-> [a \in {BlockAddr} \cup {E(i) : i \in RecIdx} |->
                IF a = BlockAddr THEN Block(VLCONTBLOCK, <<BlockAddr, 0, 0, 0>>)
                ELSE LET i == CHOOSE k \in RecIdx : E(k) = a IN
                     Rec(<<RwId(i), RwId(i) + 1, RwId(i) + 2>>, 0,
                         nn[(i + 1) % NRec],
                         E((i + 1) % NRec), 0, nn[i], RecName(i))]]

FilesWalk == {WalkFile(nn, 0) : nn \in [RecIdx -> RecPtr]}

InitWith(F) ==
    /\ file \in F
    /\ handle = Closed
    /\ pos = 0
    /\ io = <<>>
    /\ gens = [g \in GenIds |-> NoGen]
    /\ call = Idle
    /\ hin = <<>>
    /\ hlog = <<>>

-----------------------------------------------------------------------------
(* Chain walks through one generator *)

InitWalk == InitWith(FilesWalk)

NextWalk ==
    \/ Open
    \/ StartNamehash(1)
    \/ StartRwidhash(1)
    \/ HashNext(1)

SpecWalk == InitWalk /\ [][NextWalk]_vars

\* a for loop over the generator keeps calling next()
FairWalk == SpecWalk /\ WF_vars(HashNext(1))

\* the word of a record that holds each next pointer, in the file layout
FieldWord ==
    [nextIdHashRW |-> 8, nextIdHashRO |-> 9, nextIdHashBK |-> 10,
     nextNameHash |-> 11]

\* a record of 148 bytes can be read at the address
Readable(f, addr) ==
    /\ addr + DBASE_OFFSET + VLENTRY_SIZE <= f.size
    /\ IsAscii(RawAt(f, addr).name)

\* the element of a one-element set
Only(S) == CHOOSE x \in S : TRUE

RECURSIVE ChainRef(_, _, _, _)
\* the chain of `field` pointers stored in file f from addr: its addresses in
\* link order, and how it ends ("zero", "unreadable", or "cycle" when it is
\* longer than fuel)
ChainRef(f, field, addr, fuel) ==
    Only({IF a = 0 THEN [addrs |-> <<>>, end |-> "zero"]
          ELSE IF ~Readable(f, a) THEN [addrs |-> <<>>, end |-> "unreadable"]
          ELSE IF fuel = 0 THEN [addrs |-> <<>>, end |-> "cycle"]
          ELSE Only({[addrs |-> <<a>> \o rest.addrs, end |-> rest.end] :
                       rest \in {ChainRef(f, field,
                                          RawAt(f, a).w[FieldWord[field]],
                                          fuel - 1)}})
          : a \in {addr}})

Chain(field, addr) ==
    ChainRef(file, field, addr, Cardinality(DOMAIN file.rec) + 1)

Addresses(out) == [k \in 1..Len(out) |-> out[k].address]
IsPrefix(s, t) == Len(s) <= Len(t) /\ s = SubSeq(t, 1, Len(s))
Started(gen) == gen.kind = "hash" /\ gen.st # "new"

\* C2, safety part: while a chain walk runs over an acyclic 0-terminated
\* chain it has yielded a prefix of the chain, in link order and without
\* repeats, it raises nothing, and when it ends it has yielded all of it
C2_Yields ==
    \A g \in GenIds :
        LET gen == gens[g] IN
        (gen.kind = "hash" /\ gen.arg # <<>>) =>
            LET ch == Chain(WalkerField[gen.fn], gen.arg[1]) IN
            ch.end = "zero" =>
                /\ IsPrefix(Addresses(gen.out), ch.addrs)
                /\ gen.st # "error"
                /\ gen.st = "done" => Addresses(gen.out) = ch.addrs
                /\ \A j, k \in 1..Len(gen.out) :
                       j # k => gen.out[j].address # gen.out[k].address

\* C2: over an acyclic chain that ends in 0 the walk terminates, having
\* yielded every record of the chain exactly once, in link order (a start
\* address of 0 yields nothing)
C2_ChainWalkTerminates ==
    /\ []C2_Yields
    /\ \A g \in {1} :
          (/\ gens[g].kind = "hash" /\ gens[g].arg # <<>>
           /\ Chain(WalkerField[gens[g].fn], gens[g].arg[1]).end = "zero")
          ~> (gens[g].st = "done")

\* a walk over the three-record chain E(0) -> E(1) -> E(2) -> 0 has ended
C2_Witness ==
    /\ gens[1].kind = "hash" /\ gens[1].st = "done"
    /\ Addresses(gens[1].out) = <<E(0), E(1), E(2)>>

-----------------------------------------------------------------------------
(* The free list, walked by two generators among other queries *)

IdxOf(a) == CHOOSE k \in RecIdx : E(k) = a

\* record i has RW-chain pointer nrw[i] and is alone on its name chain; the
\* bucket of "dc" holds record 0
FreeFile(nrw, fp) ==
    [size |-> FullSize, ubik |-> Ubik(UbikMagic),
     vlh |-> Hdr(P(0, 0), fp, EndAddr, BlockAddr,
                 [b \in {hash_name(<<100, 99>>).val} |-> E(0)], <<>>),
     rec |-> [a \in {BlockAddr} \cup {E(i) : i \in RecIdx} |->
                IF a = BlockAddr THEN Block(VLCONTBLOCK, <<BlockAddr, 0, 0, 0>>)
                ELSE Rec(<<RwId(IdxOf(a)), 0, 0>>, 1, nrw[IdxOf(a)], 0, 0, 0,
                         RecName(IdxOf(a)))]]

\* every RW chain from every head; the records off the free list point to 0
FilesFree ==
    {FreeFile(nrw, fp) : nrw \in [RecIdx -> Ptr], fp \in Ptr} \cap
    {f \in [size : {FullSize}, ubik : {Ubik(UbikMagic)},
            vlh : {Hdr(P(0, 0), fp, EndAddr, BlockAddr,
                       [b \in {hash_name(<<100, 99>>).val} |-> E(0)], <<>>)
                   : fp \in Ptr},
            rec : {FreeFile(nrw, 0).rec : nrw \in [RecIdx -> Ptr]}] :
        LET on == ChainRef(f, "nextIdHashRW", f.vlh.w[3], NRec + 1).addrs IN
        \A i \in RecIdx :
            (\A k \in 1..Len(on) : on[k] # E(i)) => f.rec[E(i)].w[8] = 0}

InitFree == InitWith(FilesFree)

NextFree ==
    \/ Open
    \/ StartFreelist(1)
    \/ StartFreelist(2)
    \/ HashNext(1)
    \/ HashNext(2)
    \/ GenClose(1)
    \/ GenClose(2)
    \/ LookupCall
    \/ LookupStep

SpecFree == InitFree /\ [][NextFree]_vars

Ended(gen) == gen.st \in {"done", "error"}

\* C8: every walk_freelist starts at the catalog's freePtr and follows the
\* read-write-id pointers, and two walks of the same handle, however they
\* are interleaved with each other and with other queries and whether or not
\* an earlier walk was dropped part-way, yield the same sequence: one's
\* output is a prefix of the other's, and they agree once both have ended
C8_FreelistRestartable ==
    /\ \A g \in GenIds :
          LET gen == gens[g] IN
          gen.fn = "walk_freelist" =>
            /\ gen.out # <<>> => gen.out[1].address = file.vlh.w[3]
            /\ \A k \in 1..(Len(gen.out) - 1) :
                  gen.out[k + 1].address
                    = RawAt(file, gen.out[k].address).w[8]
            /\ gen.st = "done" =>
                  Addresses(gen.out)
                    = Chain("nextIdHashRW", file.vlh.w[3]).addrs
    /\ \A g1, g2 \in GenIds :
          (gens[g1].fn = "walk_freelist" /\ gens[g2].fn = "walk_freelist") =>
            /\ IsPrefix(gens[g1].out, gens[g2].out)
                  \/ IsPrefix(gens[g2].out, gens[g1].out)
            /\ (Ended(gens[g1]) /\ Ended(gens[g2])) =>
                  /\ gens[g1].out = gens[g2].out
                  /\ gens[g1].st = gens[g2].st

\* two walks of a two-record free list have both ended, the file position
\* having been moved by a lookup
C8_Witness ==
    /\ gens[1].fn = "walk_freelist" /\ gens[1].st = "done"
    /\ gens[2].fn = "walk_freelist" /\ gens[2].st = "done"
    /\ Len(gens[1].out) = 2
    /\ call.st = "returned"
    /\ pos = E(0) + DBASE_OFFSET + VLENTRY_SIZE

-----------------------------------------------------------------------------
(* The sequential scan over files of contiguous items *)

\* the flags of the items: a volume record, a continuation block, a record
\* with the continuation bit and another bit set
ItemFlags == {0, VLCONTBLOCK, VLCONTBLOCK + 1}
Layouts == UNION {[1..n -> ItemFlags] : n \in 0..NRec}

\* the address of item k of a layout: the items before it span 8192 bytes
\* when their flags are 8 and 148 bytes otherwise
ItemAddr(fl, k) ==
    LET before == 1..(k - 1)
        blocks == Cardinality({j \in before : fl[j] = VLCONTBLOCK})
    IN  P(Cardinality(before) - blocks, 1 + blocks)

\* the first continuation block, then the items; the file ends with them
ScanFile(fl, hs, eof) ==
    [size |-> ItemAddr(fl, Len(fl) + 1) + DBASE_OFFSET,
     ubik |-> Ubik(UbikMagic),
     vlh |-> Hdr(hs, 0, eof, BlockAddr, <<>>, <<>>),
     rec |-> [a \in {BlockAddr} \cup {ItemAddr(fl, k) : k \in 1..Len(fl)} |->
                IF a = BlockAddr THEN Block(VLCONTBLOCK, <<BlockAddr, 0, 0, 0>>)
                ELSE LET k == CHOOSE j \in 1..Len(fl) : ItemAddr(fl, j) = a IN
                     Rec(<<k, 0, 0>>, fl[k], 0, 0, 0, 0, RecName(k))]]

\* eofPtr at an item boundary, one byte past it, or past the file
FilesScan ==
    {ScanFile(fl, hs, eof) :
        fl \in Layouts, hs \in {P(0, 0), P(0, 1)},
        eof \in UNION {{P(i, j), P(i, j) + 1} : i \in 0..NRec, j \in 1..2}}

InitScan == InitWith(FilesScan)

NextScan ==
    \/ Open
    \/ StartScan(1)
    \/ ScanNext(1)

SpecScan == InitScan /\ [][NextScan]_vars

\* C3: a sequential scan, whatever the file holds and wherever it starts,
\* never yields a record whose flags field equals 8
C3_NoContinuationYielded ==
    \A g \in GenIds :
        gens[g].kind = "scan" =>
            \A k \in 1..Len(gens[g].out) : gens[g].out[k].flags # 8

\* a scan given a start address has passed over a continuation block and
\* yielded the record with flags 9 after it
C3_Witness ==
    /\ gens[1].kind = "scan" /\ gens[1].arg # <<>>
    /\ \E k \in 1..Len(gens[1].visited) :
          RawAt(file, gens[1].visited[k]).w[4] = 8
    /\ \E k \in 1..Len(gens[1].out) : gens[1].out[k].flags = 9

RECURSIVE ScanRef(_, _, _)
\* the positions a scan of file f from addr visits: each below eofPtr, the
\* next one 8192 bytes on after flags 8 and 148 bytes on otherwise, the last
\* one possibly unreadable
ScanRef(f, addr, fuel) ==
    IF addr >= f.vlh.w[4] \/ fuel = 0 THEN <<>>
    ELSE IF ~Readable(f, addr) THEN <<addr>>
    ELSE <<addr>> \o ScanRef(f, addr + (IF RawAt(f, addr).w[4] = 8
                                        THEN 8192 ELSE 148), fuel - 1)

Yieldable(a) == Readable(file, a) /\ RawAt(file, a).w[4] # 8

RECURSIVE Select(_)
\* the subsequence of the addresses in s that hold a readable record without
\* flags 8
Select(s) ==
    IF s = <<>> THEN <<>>
    ELSE (IF Yieldable(s[1]) THEN <<s[1]>> ELSE <<>>) \o Select(Tail(s))

\* C4: a scan with no start address starts at headersize; it visits the
\* positions reached by steps of 8192 after flags 8 and of 148 otherwise, up
\* to the first one at or past eofPtr; it yields exactly the records without
\* flags 8 at the positions visited, in increasing address order, each at an
\* address a with headersize <= a < eofPtr
C4_ScanVisitsAndYields ==
    \A g \in GenIds :
        LET gen == gens[g]
            ref == ScanRef(file, file.vlh.w[2], NRec + 4)
        IN  (gen.kind = "scan" /\ gen.arg = <<>> /\ gen.st # "new") =>
              /\ IsPrefix(gen.visited, ref)
              /\ gen.st \in {"done", "error"} => gen.visited = ref
              /\ Addresses(gen.out) = Select(gen.visited)
              /\ \A k \in 1..Len(gen.out) :
                    /\ file.vlh.w[2] <= gen.out[k].address
                    /\ gen.out[k].address < file.vlh.w[4]
                    /\ k > 1 => gen.out[k - 1].address < gen.out[k].address

\* a scan from headersize has ended after passing over two continuation
\* blocks and yielding two records, with eofPtr one byte past the last one
C4_Witness ==
    /\ gens[1].kind = "scan" /\ gens[1].arg = <<>> /\ gens[1].st = "done"
    /\ Len(gens[1].visited) = 4 /\ Len(gens[1].out) = 2
    /\ file.vlh.w[4] = gens[1].out[2].address + 1

-----------------------------------------------------------------------------
(* hash_name over all short names *)

\* character values: '-' (below 63), 'a', the largest accepted, the smallest
\* rejected
CharSet == {45, 97, MAXCHAR, MAXCHAR + 1}
Names == UNION {[1..n -> CharSet] : n \in 0..MaxNameLen}

\* a file that opens
HashFile == ScanFile(<<>>, P(0, 0), P(0, 1))

InitHash ==
    /\ file = HashFile
    /\ handle = Closed
    /\ pos = 0
    /\ io = <<>>
    /\ gens = [g \in GenIds |-> NoGen]
    /\ call = Idle
    /\ hin \in Names
    /\ hlog = <<>>

NextHash ==
    \/ Open
    \/ HashCall

SpecHash == InitHash /\ [][NextHash]_vars

\* (acc * 63 + d) mod 2^32 on the four bytes of acc, least significant
\* first, by long multiplication with carries (a negative d borrows)
RefStep(b, d) ==
    LET t0 == b[1] * 63 + d
        c0 == (t0 - (t0 % 256)) \div 256
        t1 == b[2] * 63 + c0
        c1 == (t1 - (t1 % 256)) \div 256
        t2 == b[3] * 63 + c1
        c2 == (t2 - (t2 % 256)) \div 256
        t3 == b[4] * 63 + c2
    IN  <<t0 % 256, t1 % 256, t2 % 256, t3 % 256>>

RECURSIVE RefAcc(_)
\* the accumulator after the characters of name, last first: the one for
\* the name's tail, stepped with the name's head
RefAcc(name) ==
    IF name = <<>> THEN <<0, 0, 0, 0>>
    ELSE RefStep(RefAcc(Tail(name)), Head(name) - 63)

\* the reference polynomial: the accumulator modulo 8191
RefHash(name) ==
    LET b == RefAcc(name) IN
    (((((b[4] * 256 + b[3]) % 8191) * 256 + b[2]) % 8191) * 256 + b[1]) % 8191

\* values Python computes with VLDB0.hash_name
KnownAnswers ==
    {<< <<>>, 0 >>, << <<97>>, 34 >>, << <<45>>, 46 >>, << <<45, 97>>, 2124 >>,
     << <<255, 45, 97, 97>>, 2288 >>, << <<45, 45, 45, 45, 45>>, 8133 >>,
     << <<255, 255, 255, 255, 255, 255>>, 5577 >>,
     << <<45, 255, 255, 255, 255, 255>>, 5367 >>,
     << <<97, 45, 255, 97, 45, 255>>, 144 >>,
     << <<97, 97, 97, 97, 97, 97>>, 5913 >>}

\* C5: for every name whose characters all have a value of at most 255,
\* the empty name and names with characters below 63 included, hash_name
\* returns the reference polynomial's value: the characters taken in reverse
\* order, acc := (acc * 63 + (v - 63)) mod 2^32 from 0, then acc mod 8191
C5_HashIsReferencePolynomial ==
    \A k \in 1..Len(hlog) :
        LET c == hlog[k] IN
        (\A i \in 1..Len(c.volname) : c.volname[i] <= 255) =>
            /\ c.res.ok
            /\ c.res.val = RefHash(c.volname)
            /\ \A ka \in KnownAnswers : ka[1] = c.volname => c.res.val = ka[2]

\* hash_name has returned for a six-character name that starts with a
\* character below 63 and whose accumulator wrapped around 2^32
C5_Witness ==
    /\ Len(hlog) >= 1
    /\ hlog[1].volname = <<45, 255, 255, 255, 255, 255>>
    /\ hlog[1].res.ok /\ hlog[1].res.val = 5367

\* C6: whenever hash_name returns, its value is in 0..8190; two calls with
\* the same name give the same outcome, whatever the state of the handle at
\* each call and whatever was called in between
C6_HashRangeAndDeterminism ==
    \A k \in 1..Len(hlog) :
        /\ hlog[k].res.ok => hlog[k].res.val \in 0..8190
        /\ \A l \in 1..Len(hlog) :
              hlog[k].volname = hlog[l].volname => hlog[k].res = hlog[l].res

\* the same name hashed before the file was opened and after, with a call
\* for another name in between, or the other way around
C6_Witness ==
    /\ Len(hlog) >= 2
    /\ hlog[1].volname = hlog[Len(hlog)].volname
    /\ hlog[1].st = "closed" /\ hlog[Len(hlog)].st = "open"
    /\ hlog[1].res.ok /\ hlog[1].res.val > 0
    /\ Len(hlog[1].volname) > 1

-----------------------------------------------------------------------------
(* lookup_name over every name chain *)

\* record i is named nm[i] and has name-chain pointer nn[i]; the bucket that
\* "dc" and "vld" share starts at head, the bucket of "a" is empty
LookupFile(nm, nn, head) ==
    [size |-> FullSize, ubik |-> Ubik(UbikMagic),
     vlh |-> Hdr(P(0, 0), 0, EndAddr, BlockAddr,
                 [b \in {hash_name(NameA).val} |-> head], <<>>),
     rec |-> [a \in {BlockAddr} \cup {E(i) : i \in RecIdx} |->
                IF a = BlockAddr THEN Block(VLCONTBLOCK, <<BlockAddr, 0, 0, 0>>)
                ELSE Rec(<<RwId(IdxOf(a)), 0, 0>>, 0, 0, 0, 0, nn[IdxOf(a)],
                         nm[IdxOf(a)])]]

RECURSIVE OnChain(_, _, _)
\* the addresses reached from those in R by up to fuel pointers of nn
OnChain(nn, R, fuel) ==
    IF fuel = 0 THEN R
    ELSE OnChain(nn, R \cup {nn[IdxOf(a)] : a \in R \ {0, EndAddr}}, fuel - 1)

\* every name chain from every head, ending in 0, in a cycle or past the end
\* of the file; the records off the chain are named "vld" and point to 0
FilesLookup ==
    {LookupFile(t[1], t[2], t[3]) :
        t \in {u \in [RecIdx -> {NameA, NameB}] \X [RecIdx -> Ptr] \X Ptr :
                 \A i \in RecIdx :
                    E(i) \notin OnChain(u[2], {u[3]}, NRec) =>
                        u[2][i] = 0 /\ u[1][i] = NameB}}

InitLookup == InitWith(FilesLookup)

NextLookup ==
    \/ Open
    \/ LookupCall
    \/ LookupStep

SpecLookup == InitLookup /\ [][NextLookup]_vars

\* the body of lookup_name runs on once called
FairLookup == SpecLookup /\ WF_vars(LookupStep)

\* the name chain of the bucket of a name, from the file
NameChain(name) ==
    Chain("nextNameHash", At(file.vlh.VolnameHash, RefHash(name)))

\* the places on the chain of the records named name
Hits(name) ==
    UNION {{k \in 1..Len(ch.addrs) :
              RStripNul(RawAt(file, ch.addrs[k]).name) = name}
           : ch \in {NameChain(name)}}

\* C1, safety part: a lookup whose chain holds a record of that name does
\* not raise and returns none but the first such record; a lookup whose
\* chain, or empty bucket, ends in 0 without one does not raise and returns
\* None
C1_Result ==
    call.st \in {"walking", "returned", "raised"} =>
        LET ch == NameChain(call.name)
            hits == Hits(call.name)
        IN  /\ hits # {} =>
                 /\ call.st # "raised"
                 /\ call.st = "returned" =>
                       LET first == CHOOSE k \in hits : \A j \in hits : k <= j
                       IN  /\ Len(call.ret) = 1
                           /\ call.ret[1].address = ch.addrs[first]
                           /\ call.ret[1].name = call.name
            /\ (hits = {} /\ ch.end = "zero") =>
                 /\ call.st # "raised"
                 /\ call.st = "returned" => call.ret = <<>>

\* C1: lookup_name(name) walks the nextNameHash chain from
\* VolnameHash[hash_name(name)] and returns the first record on it whose name
\* equals name; when the bucket head is 0 or the 0-terminated chain holds no
\* such record it returns None and raises nothing
C1_LookupFirstMatch ==
    /\ []C1_Result
    /\ (/\ call.st = "walking"
        /\ (Hits(call.name) # {} \/ NameChain(call.name).end = "zero"))
          ~> call.st = "returned"

\* a lookup has returned the second record of a chain of three whose second
\* and third records both have the name
C1_Witness ==
    /\ call.st = "returned"
    /\ Hits(call.name) = {2, 3}
    /\ Len(call.ret) = 1
    /\ call.ret[1].address = NameChain(call.name).addrs[2]

-----------------------------------------------------------------------------
(* Opening files that are short, mislabelled or point at the wrong block *)

\* a file with a continuation block at BlockAddr and one record, "dc", at
\* E(0), which heads its name bucket and the free list
OpenFile(magic, size, sit, eof, bflags, contaddr, rflags) ==
    [size |-> size, ubik |-> Ubik(magic),
     vlh |-> Hdr(P(0, 0), E(0), eof, sit,
                 [b \in {hash_name(NameA).val} |-> E(0)], <<>>),
     rec |-> [a \in {BlockAddr, E(0)} |->
                IF a = BlockAddr THEN Block(bflags, contaddr)
                ELSE Rec(<<RwId(0), 0, 0>>, rflags, 0, 0, 0, 0, NameA)]]

\* one byte short of the ubik header, of the vl header, of the header of the
\* block at BlockAddr; or complete
OpenSizes ==
    {UBIK_SIZE - 1, DBASE_OFFSET + VLHEADER_SIZE - 1,
     BlockAddr + DBASE_OFFSET + MHBLOCK_SIZE - 1, P(1, 1) + DBASE_OFFSET}

\* SIT at the vl header itself, at the block, at the record, past the file
FilesOpen ==
    {OpenFile(magic, size, sit, eof, bflags, contaddr, rflags) :
        magic \in {UbikMagic, 0}, size \in OpenSizes,
        sit \in {0, BlockAddr, E(0), P(1, 1)}, eof \in {VLCONTBLOCK, P(1, 1)},
        bflags \in {VLCONTBLOCK, 0, VLCONTBLOCK + 1},
        contaddr \in {<<BlockAddr, 0, 0, 0>>,
                      <<BlockAddr, P(0, 2), P(0, 3), P(0, 4)>>},
        rflags \in {0, VLCONTBLOCK}}

InitOpen == InitWith(FilesOpen)

NextOpen ==
    \/ Open
    \/ LookupCall
    \/ LookupStep
    \/ StartFreelist(1)
    \/ HashNext(1)

SpecOpen == InitOpen /\ [][NextOpen]_vars

\* the constructor has run and no query has: io holds the constructor's reads
JustOpened ==
    /\ handle.st # "closed"
    /\ call = Idle
    /\ \A g \in GenIds : gens[g] = NoGen

\* C9: opening a file whose first four bytes are not the expected magic fails
\* with InvalidHeader, and the read of the 12-byte top-level header is the
\* only read issued (stated of the files that hold a whole top-level header)
C9_BadMagicFailsFast ==
    (/\ handle.st # "closed"
     /\ file.size >= UBIK_SIZE
     /\ file.ubik[1] # UbikMagic) =>
        /\ handle.st = "failed"
        /\ handle.err = "InvalidHeader"
        /\ JustOpened => io = <<[off |-> 0, size |-> 12]>>

\* the 4-byte ints stored at the address the catalog's SIT field holds
SitWords ==
    IF file.vlh.SIT = 0 THEN file.vlh.w ELSE RawAt(file, file.vlh.SIT).w

\* C10, the constructor's outcome: once both headers are read, the third
\* read is of 128 bytes at SIT; a flags word other than 8 there leaves no
\* object; an object's mhblocks are the four ints after the flags word
C10_Opened ==
    handle.st # "closed" =>
        /\ (JustOpened /\ file.size >= DBASE_OFFSET + VLHEADER_SIZE) =>
              /\ Len(io) = 3
              /\ io[3] = [off |-> file.vlh.SIT + 64, size |-> 128]
        /\ SitWords[4] # 8 =>
              handle.st = "failed" /\ handle.mhblocks = None
        /\ handle.st = "open" =>
              handle.mhblocks =
                  <<SitWords[5], SitWords[6], SitWords[7], SitWords[8]>>

\* C10: open reads the 128-byte continuation-block header at SIT and fails,
\* leaving no handle, unless its flags are exactly 8; the handle's mhblocks
\* are that header's four block addresses, and no query changes them
C10_BlockTableRetained ==
    /\ []C10_Opened
    /\ [][handle.st = "open" =>
            handle'.st = "open" /\ handle'.mhblocks = handle.mhblocks]_vars

\* a handle holding four block addresses after a lookup has returned and a
\* free-list walk has ended
C10_Witness ==
    /\ handle.st = "open"
    /\ handle.mhblocks = <<BlockAddr, P(0, 2), P(0, 3), P(0, 4)>>
    /\ call.st = "returned"
    /\ gens[1].st = "done"

-----------------------------------------------------------------------------
(* Server resolution over every kind of packed address *)

\* the four continuation blocks, each 8192 bytes after the one before
BlockBase(b) == P(0, b)
NBLOCKS == 4        \* MHBlockHeader.contaddr = vals[4:8]

\* the multi-homed entry the files store at place index of block b: its
\* uuid, and addresses in places 1 and 3 of 15 only
MhOf(b, index) ==
    [uuid |-> <<b + 1, index, 7, 1, 2, <<b, index, 0, 0, 0, 9>> >>,
     uniquifier |-> index,
     addrs |-> [k \in {1, 3} |-> <<2560 + b, 256 * k + index>>],
     tail |-> <<0, 0>>]

\* the entries stored: entry 5 of every block, and the last entry of each
MhPlaces == {<<b, i>> : b \in 0..(NBLOCKS - 1), i \in {5, MAXINDEX}}

ServSizeFull == BlockBase(NBLOCKS) + DBASE_OFFSET

\* a file whose server table is ip, with its four blocks; size bytes long
ServFile(ip, size) ==
    [size |-> size, ubik |-> Ubik(UbikMagic),
     vlh |-> [Hdr(P(0, 0), 0, BlockBase(NBLOCKS), BlockAddr, <<>>, <<>>)
                 EXCEPT !.IpMappedAddr = ip],
     rec |-> [a \in {BlockBase(b) : b \in 0..(NBLOCKS - 1)} |->
                Block(VLCONTBLOCK,
                      IF a = BlockAddr
                      THEN [b \in 1..NBLOCKS |-> BlockBase(b - 1)]
                      ELSE <<0, 0, 0, 0>>)],
     mh |-> [a \in {BlockBase(pl[1]) + pl[2] * MHENTRY_SIZE : pl \in MhPlaces}
               |-> LET pl == CHOOSE q \in MhPlaces :
                               a = BlockBase(q[1]) + q[2] * MHENTRY_SIZE
                   IN  MhOf(pl[1], pl[2])]]

\* packed addresses: 0; 10.0.0.1, 0.255.0.1 and 254.255.255.255; entry 5
\* of blocks 0, 1 and 3, entry 63 of block 3; block 4; entries 0 and 64;
\* block 5
PackedInputs ==
    {<<0, 0>>, <<2560, 1>>, <<255, 1>>, <<65279, 65535>>,
     <<65280, 5>>, <<65280, 261>>, <<65280, 773>>, <<65280, 831>>,
     <<65280, 1025>>, <<65280, 0>>, <<65280, 64>>, <<65280, 1281>>}

\* complete, or one byte short of the last entry of the last block
ServSizes == {ServSizeFull, ServSizeFull - 1}

FilesServ ==
    {ServFile([n \in {1, NSLOTS - 1} |-> IF n = 1 THEN v ELSE w], size) :
        v \in PackedInputs, w \in PackedInputs, size \in ServSizes}

InitServ == InitWith(FilesServ)

NextServ ==
    \/ Open
    \/ LookupServer

SpecServ == InitServ /\ [][NextServ]_vars

\* the packed address the file stores for the slot of the latest call
SlotWord == IpAt(file.vlh.IpMappedAddr, call.number)
Served ==
    /\ call.st \in {"returned", "raised"}
    /\ "fn" \in DOMAIN call
    /\ call.fn = "lookup_server"

\* C11: a non-zero packed address whose most significant byte is not 0xFF
\* resolves without a read to a Server with no uuid and one address, the
\* dotted quad of the big-endian value (0x0A000001 is 10.0.0.1)
C11_DirectAddress ==
    (Served /\ SlotWord # <<0, 0>> /\ SlotWord[1] \div 256 # 255) =>
        /\ call.st = "returned"
        /\ call.reads = <<>>
        /\ call.ret[1].number = call.number
        /\ call.ret[1].uuid = <<>>
        /\ call.ret[1].addrs =
              << <<SlotWord[1] \div 256, SlotWord[1] % 256,
                   SlotWord[2] \div 256, SlotWord[2] % 256>> >>
        /\ SlotWord = <<2560, 1>> => call.ret[1].addrs = << <<10, 0, 0, 1>> >>

\* slot 254 holding 0x0A000001 has resolved to 10.0.0.1
C11_Witness ==
    /\ Served /\ call.number = 254 /\ SlotWord = <<2560, 1>>
    /\ call.st = "returned" /\ call.ret[1].addrs = << <<10, 0, 0, 1>> >>

\* bits 8..23 and bits 0..7 of the packed address of the latest call
SlotBlock == (SlotWord[1] % 256) * 256 + SlotWord[2] \div 256
SlotIndex == SlotWord[2] % 256
Tagged == Served /\ SlotWord[1] \div 256 = 255

\* the four block addresses the file stores in the header at SIT
FileBlocks == <<SitWords[5], SitWords[6], SitWords[7], SitWords[8]>>

RECURSIVE NonZero(_, _)
\* the non-zero ones among the 15 packed addresses of a stored entry, from
\* place k on, in stored order
NonZero(addrs, k) ==
    IF k > 15 THEN <<>>
    ELSE (IF k \in DOMAIN addrs /\ addrs[k] # <<0, 0>>
          THEN <<addrs[k]>> ELSE <<>>) \o NonZero(addrs, k + 1)

\* C12: a packed address with most significant byte 0xFF whose block is one
\* of the table's four and whose index is in 1..63 is resolved by one read
\* of 128 bytes at mhblocks[block] + index * 128; the Server carries the
\* uuid stored there and the entry's non-zero addresses in stored order
\* (0xFF000005 reads entry 5 of block 0)
C12_IndirectAddress ==
    (/\ Tagged /\ SlotBlock \in 0..3 /\ SlotIndex \in 1..63) =>
        LET at == FileBlocks[SlotBlock + 1] + SlotIndex * 128
            stored == MhRawAt(file, at)
            nz == NonZero(stored.addrs, 1)
        IN  /\ call.reads = <<[off |-> at + 64, size |-> 128]>>
            /\ SlotWord = <<65280, 5>> => at = BlockAddr + 5 * 128
            /\ at + 64 + 128 <= file.size =>
                  /\ call.st = "returned"
                  /\ call.ret[1].number = call.number
                  /\ Len(call.ret[1].uuid) = 1
                  /\ call.ret[1].uuid[1].time_low = stored.uuid[1]
                  /\ call.ret[1].uuid[1].time_mid = stored.uuid[2]
                  /\ call.ret[1].uuid[1].time_hi = stored.uuid[3]
                  /\ call.ret[1].uuid[1].clock_hi = stored.uuid[4]
                  /\ call.ret[1].uuid[1].clock_low = stored.uuid[5]
                  /\ call.ret[1].uuid[1].node = stored.uuid[6]
                  /\ Len(call.ret[1].addrs) = Len(nz)
                  /\ \A k \in 1..Len(nz) :
                        call.ret[1].addrs[k] =
                            <<nz[k][1] \div 256, nz[k][1] % 256,
                              nz[k][2] \div 256, nz[k][2] % 256>>

\* slot 1 holding 0xFF000305 has resolved to entry 5 of block 3, with its
\* two addresses
C12_Witness ==
    /\ Tagged /\ call.number = 1 /\ SlotWord = <<65280, 773>>
    /\ call.st = "returned"
    /\ call.reads = <<[off |-> BlockBase(3) + 5 * 128 + 64, size |-> 128]>>
    /\ call.ret[1].addrs = << <<10, 3, 1, 5>>, <<10, 3, 3, 5>> >>

\* C13: an indirect reference with block index in 0..4 and entry index in
\* 1..63 is valid: resolution finds the block's base address in the table
\* retained at open and returns a Server (stated of the files that hold
\* their blocks whole)
C13_ValidReferencesResolve ==
    (/\ Tagged /\ file.size >= ServSizeFull
     /\ SlotBlock \in 0..4 /\ SlotIndex \in 1..63) =>
        call.st = "returned"

\* C14: a slot whose packed address is 0 resolves, without a read, to a
\* Server with the slot's number, no uuid and no address
C14_ZeroSlot ==
    (Served /\ SlotWord = <<0, 0>>) =>
        /\ call.st = "returned"
        /\ call.reads = <<>>
        /\ call.ret = <<[number |-> call.number, uuid |-> <<>>,
                         addrs |-> <<>>]>>

\* slot 254, holding 0, has resolved while slot 1 holds an indirect address
C14_Witness ==
    /\ Served /\ call.number = 254 /\ SlotWord = <<0, 0>>
    /\ IpAt(file.vlh.IpMappedAddr, 1) = <<65280, 5>>
    /\ call.st = "returned" /\ call.ret[1].addrs = <<>>

-----------------------------------------------------------------------------
(* walk_servers over the same files *)

NextServWalk ==
    \/ Open
    \/ StartServers(1)
    \/ ServersNext(1)

SpecServWalk == InitServ /\ [][NextServWalk]_vars

\* a packed address the format allows: 0, a direct address, or a reference
\* to an entry 1..63 of a block 0..4
ValidPacked(v) ==
    \/ v[1] \div 256 # 255
    \/ /\ (v[1] % 256) * 256 + v[2] \div 256 \in 0..4
       /\ v[2] % 256 \in 1..63

\* C15: walk_servers yields exactly 255 Servers, the i-th (i = 0..254) with
\* number i and equal to lookup_server(i), in increasing slot order (stated
\* of the files that hold their blocks whole and only allowed addresses)
C15_AllServersInOrder ==
    \A g \in GenIds :
        (/\ gens[g].kind = "servers" /\ gens[g].st \in {"done", "error"}
         /\ file.size >= ServSizeFull
         /\ \A n \in DOMAIN file.vlh.IpMappedAddr :
               ValidPacked(file.vlh.IpMappedAddr[n])) =>
            /\ gens[g].st = "done"
            /\ Len(gens[g].out) = 255
            /\ \A i \in 0..254 :
                  /\ gens[g].out[i + 1].number = i
                  /\ lookup_server(i).ok
                  /\ gens[g].out[i + 1] = lookup_server(i).val

-----------------------------------------------------------------------------
(* Names with a character above 255 *)

\* the names of up to three characters
ShortNames == UNION {[1..n -> CharSet] : n \in 0..3}

InitBadName ==
    /\ file \in {LookupFile([i \in RecIdx |-> NameA], [i \in RecIdx |-> 0],
                            E(0))}
    /\ handle = Closed
    /\ pos = 0
    /\ io = <<>>
    /\ gens = [g \in GenIds |-> NoGen]
    /\ call = Idle
    /\ hin \in ShortNames
    /\ hlog = <<>>

NextBadName ==
    \/ Open
    \/ HashCall
    \/ LookupHin
    \/ LookupStep

SpecBadName == InitBadName /\ [][NextBadName]_vars

BadName(name) == \E i \in 1..Len(name) : name[i] > 255

\* C16: hash_name rejects a name with a character above 255 with an error
\* (TypeError), and lookup_name of such a name raises it before any read:
\* the call issues no read and leaves the file position where it was
C16_InvalidNameBeforeIO ==
    /\ [](\A k \in 1..Len(hlog) :
            BadName(hlog[k].volname) =>
                ~hlog[k].res.ok /\ hlog[k].res.err = "TypeError")
    /\ [](call.st # "idle" /\ BadName(call.name) =>
            call.st = "raised" /\ call.err = "TypeError")
    /\ [][(call' # call /\ BadName(call'.name)) =>
            io' = <<>> /\ pos' = pos]_vars

\* on an open handle whose file position the constructor moved, a lookup of
\* a name whose middle character is 256 has raised, as hash_name had
C16_Witness ==
    /\ handle.st = "open" /\ pos > 0
    /\ Len(hin) = 3 /\ hin[2] = 256 /\ hin[1] = 97 /\ hin[3] = 97
    /\ call.st = "raised" /\ call.err = "TypeError"
    /\ Len(hlog) >= 1 /\ hlog[1].volname = hin /\ ~hlog[1].res.ok

-----------------------------------------------------------------------------
(* Reads that run past the end of the file *)

\* files cut short at the headers; a scan whose eofPtr lies past the file;
\* name and RW chains that lead past the file; a server table that refers
\* to the last entry of the last block, one byte short
FilesShort ==
    {OpenFile(UbikMagic, size, BlockAddr, P(1, 1), VLCONTBLOCK,
              <<BlockAddr, 0, 0, 0>>, 0) : size \in OpenSizes}
    \cup {ScanFile(fl, P(0, 0), P(NRec, 2)) :
             fl \in {<<>>, <<0, 0>>, <<VLCONTBLOCK, 0>>}}
    \cup {LookupFile([i \in RecIdx |-> NameB],
                     [i \in RecIdx |-> IF i = 0 THEN E(1) ELSE EndAddr], head)
             : head \in {E(0), EndAddr}}
    \cup {FreeFile([i \in RecIdx |-> IF i = 0 THEN E(1) ELSE EndAddr], E(0))}
    \cup {ServFile([n \in {1} |-> v], size) :
             v \in {<<65280, 831>>, <<65280, 5>>}, size \in ServSizes}

InitShort == InitWith(FilesShort)

NextShort ==
    \/ Open
    \/ StartNamehash(1)
    \/ StartRwidhash(1)
    \/ StartFreelist(1)
    \/ HashNext(1)
    \/ StartScan(1)
    \/ ScanNext(1)
    \/ StartServers(1)
    \/ ServersNext(1)
    \/ GenClose(1)
    \/ LookupCall
    \/ LookupStep
    \/ LookupServer

SpecShort == InitShort /\ [][NextShort]_vars

\* the file ends before the last byte the read asks for
ShortRead(rd) == rd.off + rd.size > file.size

\* C17: a step whose read returns fewer bytes than the record's size issues
\* no further read and raises struct.error to the caller of the query: the
\* constructor leaves no object, a lookup raises, a generator ends in the
\* error with nothing added to what it has yielded
C17_ShortReadRaises ==
    [][(\E k \in 1..Len(io') : ShortRead(io'[k])) =>
          /\ \A k \in 1..(Len(io') - 1) : ~ShortRead(io'[k])
          /\ \/ /\ handle.st = "closed"
                /\ handle'.st = "failed" /\ handle'.err = "struct.error"
             \/ /\ gens' = gens /\ handle' = handle
                /\ call'.st = "raised" /\ call'.err = "struct.error"
             \/ \E g \in GenIds :
                   /\ gens'[g] # gens[g]
                   /\ gens'[g].st = "error" /\ gens'[g].err = "struct.error"
                   /\ gens'[g].out = gens[g].out]_vars

\* a scan that has yielded two records has ended in struct.error on a
\* read that ran past the end of the file
C17_Witness ==
    /\ gens[1].kind = "scan" /\ gens[1].st = "error"
    /\ gens[1].err = "struct.error" /\ Len(gens[1].out) = 2
    /\ io # <<>> /\ ShortRead(io[Len(io)])

-----------------------------------------------------------------------------
(* Queries interleaved on one handle *)

\* records E(i) named "vld", "dc", "dc", ... on one name chain in address
\* order, all free, with RW pointers nrw and free-list head fp; server
\* table ip; entry 5 of the block stored
ReentFile(nrw, fp, ip) ==
    [size |-> FullSize, ubik |-> Ubik(UbikMagic),
     vlh |-> [Hdr(P(0, 0), fp, EndAddr, BlockAddr,
                  [b \in {hash_name(NameA).val} |-> E(0)], <<>>)
                 EXCEPT !.IpMappedAddr = ip],
     rec |-> [a \in {BlockAddr} \cup {E(i) : i \in RecIdx} |->
                IF a = BlockAddr THEN Block(VLCONTBLOCK, <<BlockAddr, 0, 0, 0>>)
                ELSE Rec(<<RwId(IdxOf(a)), 0, 0>>, 1, nrw[IdxOf(a)], 0, 0,
                         IF IdxOf(a) = MaxRec THEN 0 ELSE E(IdxOf(a) + 1),
                         IF IdxOf(a) = 0 THEN NameB ELSE NameA)],
     mh |-> [a \in {BlockAddr + 5 * MHENTRY_SIZE} |-> MhOf(0, 5)]]

\* free lists in address order, in reverse order and cyclic, from three
\* heads; slot 1 direct or indirect
FilesReent ==
    {ReentFile(nrw, fp, [n \in {1} |-> v]) :
        nrw \in {[i \in RecIdx |-> IF i = MaxRec THEN 0 ELSE E(i + 1)],
                 [i \in RecIdx |-> IF i = 0 THEN 0 ELSE E(i - 1)],
                 [i \in RecIdx |-> E((i + 1) % NRec)]},
        fp \in {0, E(0), E(MaxRec)},
        v \in {<<2560, 1>>, <<65280, 5>>}}

InitReent == InitWith(FilesReent)

NextReent ==
    \/ Open
    \/ StartScan(1)
    \/ ScanNext(1)
    \/ StartFreelist(2)
    \/ HashNext(2)
    \/ GenClose(1)
    \/ GenClose(2)
    \/ LookupCall
    \/ LookupStep
    \/ LookupServer

SpecReent == InitReent /\ [][NextReent]_vars

\* the record yielded is the one the file stores at its address
AsStored(e) ==
    LET raw == RawAt(file, e.address) IN
    /\ e.rwid = raw.w[1] /\ e.flags = raw.w[4]
    /\ e.nextIdHashRW = raw.w[8] /\ e.nextNameHash = raw.w[11]
    /\ e.name = RStripNul(raw.name)

\* what each query has produced is what it produces when run alone: the
\* scan the positions and records of the scan recurrence from its start,
\* the free-list walk the RW chain from freePtr, lookup_name the first
\* record of the name on its chain, lookup_server the slot's server
C18_AsAlone ==
    /\ \A g \in GenIds :
          LET gen == gens[g] IN
          /\ gen.kind = "scan" /\ gen.st # "new" =>
                LET ref == ScanRef(file, IF gen.arg = <<>> THEN file.vlh.w[2]
                                         ELSE gen.arg[1], NRec + 4)
                IN  /\ IsPrefix(gen.visited, ref)
                    /\ gen.st = "done" => gen.visited = ref
                    /\ Addresses(gen.out) = Select(gen.visited)
          /\ gen.kind = "hash" /\ gen.st # "new" =>
                LET ch == Chain("nextIdHashRW", file.vlh.w[3]) IN
                /\ IsPrefix(Addresses(gen.out), ch.addrs)
                       \/ (ch.end = "cycle" /\ Len(gen.out) > Len(ch.addrs))
                /\ gen.st = "done" => Addresses(gen.out) = ch.addrs
          /\ \A k \in 1..Len(gen.out) :
                gen.kind \in {"scan", "hash"} => AsStored(gen.out[k])
    /\ (call.st = "returned" /\ "name" \in DOMAIN call) =>
          IF Hits(call.name) = {} THEN call.ret = <<>>
          ELSE /\ Len(call.ret) = 1 /\ AsStored(call.ret[1])
               /\ call.ret[1].address =
                     NameChain(call.name).addrs[
                         CHOOSE k \in Hits(call.name) :
                             \A j \in Hits(call.name) : k <= j]
    /\ Served =>
          /\ call.st = "returned"
          /\ call.ret[1].number = call.number
          /\ SlotWord = <<0, 0>> => call.ret[1].addrs = <<>>
          /\ SlotWord = <<2560, 1>> =>
                call.ret[1].addrs = << <<10, 0, 0, 1>> >>
          /\ SlotWord = <<65280, 5>> =>
                /\ call.ret[1].addrs = << <<10, 0, 1, 5>>, <<10, 0, 3, 5>> >>
                /\ call.ret[1].uuid[1].time_mid = 5

\* C18: queries on one handle are reentrant: however the steps of a scan,
\* a free-list walk, lookups by name and server lookups are interleaved,
\* each gives what it gives alone, and no query changes the handle (its
\* decoded header and block-address table)
C18_Reentrant ==
    /\ []C18_AsAlone
    /\ [][handle.st = "open" => handle' = handle]_vars

\* a scan and a free-list walk both under way, each having yielded two
\* records, with a server lookup that read a multi-homed entry last
C18_Witness ==
    /\ gens[1].kind = "scan" /\ gens[1].st = "running"
    /\ Len(gens[1].out) = 2
    /\ gens[2].kind = "hash" /\ gens[2].st = "running"
    /\ Len(gens[2].out) = 2
    /\ Served /\ call.reads # <<>>

-----------------------------------------------------------------------------
(* The server reference report *)

\* the server numbers a record may store: no site, one server at two
\* positions, two servers at the first and the last position
SiteChoices ==
    {<<>>, [i \in {0, 1} |-> 1], [i \in {0, NSITES - 1} |-> IF i = 0 THEN NSLOTS - 1 ELSE 0]}

\* records E(i) after the block at headersize, with server numbers sn[i];
\* server table ip; entry 5 of the block stored
ReportFile(sn, ip) ==
    [size |-> FullSize, ubik |-> Ubik(UbikMagic),
     vlh |-> [Hdr(P(0, 0), 0, EndAddr, BlockAddr, <<>>, <<>>)
                 EXCEPT !.IpMappedAddr = ip],
     rec |-> [a \in {BlockAddr} \cup {E(i) : i \in RecIdx} |->
                IF a = BlockAddr THEN Block(VLCONTBLOCK, <<BlockAddr, 0, 0, 0>>)
                ELSE [Rec(<<RwId(IdxOf(a)), 0, 0>>, 0, 0, 0, 0, 0, RecName(IdxOf(a)))
                         EXCEPT !.serverNumber = Bytes(BADSERVERID, sn[IdxOf(a)])]],
     mh |-> [a \in {BlockAddr + 5 * MHENTRY_SIZE} |-> MhOf(0, 5)]]

\* slot 1 direct and the last slot indirect, or slot 1 naming a block the
\* table does not hold
FilesReport ==
    {ReportFile(sn, ip) :
        sn \in [RecIdx -> SiteChoices],
        ip \in {[n \in {1, NSLOTS - 1} |-> IF n = 1 THEN <<2560, 1>> ELSE <<65280, 5>>],
                [n \in {1} |-> <<65280, 1025>>]}}

InitReport == InitWith(FilesReport)

NextReport ==
    \/ Open
    \/ ReportStart
    \/ ReportCount
    \/ ReportServer

SpecReport == InitReport /\ [][NextReport]_vars

\* the addresses of the records a full scan yields
ScannedRecords ==
    UNION {{ys[k] : k \in 1..Len(ys)} :
              ys \in {Select(ScanRef(file, file.vlh.w[2], NRec + 4))}}

\* the (record, site position) pairs of the records a full scan yields
\* whose server number is not 255
OccupiedSites ==
    {p \in ScannedRecords \X (0..(NSITES - 1)) :
        ByteAt(RawAt(file, p[1]).serverNumber, p[2]) # BADSERVERID}

\* for every slot referenced, the number of pairs that reference it
RefCount ==
    LET occ == OccupiedSites
        num(p) == ByteAt(RawAt(file, p[1]).serverNumber, p[2])
    IN  [s \in {num(p) : p \in occ} |->
            Cardinality({p \in occ : num(p) = s})]

Reported == "fn" \in DOMAIN call /\ call.fn = "report"

\* C19: once the scan of the report is over, count holds for every slot the
\* number of (record, site position) pairs of the scanned records that
\* name it, nothing for 255, so that the counts sum to the number of
\* occupied sites; every server printed has a uuid or an address and is
\* printed with the count of its slot
C19_ReferenceCounts ==
    (Reported /\ call.st \in {"listing", "returned"}) =>
        /\ call.count = RefCount
        /\ CopiesIn(BADSERVERID, call.count) = 0
        /\ BagCardinality(call.count) = Cardinality(OccupiedSites)
        /\ \A k \in 1..Len(call.lines) :
              /\ call.lines[k].uuid # <<>> \/ call.lines[k].addrs # <<>>
              /\ call.lines[k].count =
                    Cardinality({p \in OccupiedSites :
                        ByteAt(RawAt(file, p[1]).serverNumber, p[2])
                            = call.lines[k].number})

\* a finished report over records that hold unused positions: one server
\* printed with two references, one with none, and slot 0 referenced but
\* not printed
C19_Witness ==
    /\ Reported /\ call.st = "returned"
    /\ \E k \in 1..Len(call.lines) : call.lines[k].count = 2
    /\ \E k \in 1..Len(call.lines) : call.lines[k].count = 0
    /\ CopiesIn(0, call.count) > 0
    /\ \A k \in 1..Len(call.lines) : call.lines[k].number # 0

-----------------------------------------------------------------------------
(* sysidutil.py: the sysid record, its decoder and its encoder *)

\* strings are sequences of character codes; the addresses handled here are
\* made of digits and dots
DOT == 46
ZERO == 48

\* Sysid.MAGIC (0x88aabbcc) and Sysid.VERSION as two 16-bit halves
MAGIC == <<34986, 48076>>
VERSION == <<0, 1>>

\* python's data[a:b]
Slice(data, a, b) == SubSeq(data, a + 1, Min(b, Len(data)))

Rev(b) == [i \in 1..Len(b) |-> b[Len(b) + 1 - i]]

\* struct.unpack('!I', b)
U32(b) == <<b[1] * 256 + b[2], b[3] * 256 + b[4]>>

\* struct.unpack('=I', b) and struct.pack('=I', v): the byte order of the
\* host
unpack_native(order, b) == IF order = "little" THEN U32(Rev(b)) ELSE U32(b)
pack_native(order, v) == IF order = "little" THEN Rev(Pack(v)) ELSE Pack(v)

Raise(err) == [ok |-> FALSE, err |-> err]
Return(val) == [ok |-> TRUE, val |-> val]

\* UUID.decode (after UUID.from_bytes): struct '!I H H B B 6B'
UUID_decode(data) ==
    IF Len(data) # 16 THEN Raise("struct.error")
    ELSE Return([time_low |-> U32(SubSeq(data, 1, 4)),
                 time_mid |-> data[5] * 256 + data[6],
                 time_hi |-> data[7] * 256 + data[8],
                 clock_hi |-> data[9], clock_low |-> data[10],
                 node |-> SubSeq(data, 11, 16)])

\* UUID.encode: struct.pack raises on a field that does not fit its width
UUID_encode(uuid) ==
    IF /\ uuid.time_mid \in 0..65535 /\ uuid.time_hi \in 0..65535
       /\ uuid.clock_hi \in 0..255 /\ uuid.clock_low \in 0..255
       /\ Len(uuid.node) = 6
       /\ \A k \in 1..Len(uuid.node) : uuid.node[k] \in 0..255
    THEN Return(Pack(uuid.time_low)
                \o <<uuid.time_mid \div 256, uuid.time_mid % 256,
                     uuid.time_hi \div 256, uuid.time_hi % 256,
                     uuid.clock_hi, uuid.clock_low>>
                \o uuid.node)
    ELSE Raise("struct.error")

RECURSIVE Dec(_)
\* a number in decimal
Dec(n) == IF n < 10 THEN <<ZERO + n>> ELSE Dec(n \div 10) \o <<ZERO + (n % 10)>>

\* socket.inet_ntoa(pa) as a string
DottedQuad(pa) ==
    Dec(pa[1]) \o <<DOT>> \o Dec(pa[2]) \o <<DOT>> \o Dec(pa[3]) \o <<DOT>>
        \o Dec(pa[4])

\* _quad_dotted(unpacked_address)
quad_dotted(ua) == DottedQuad(Pack(ua))

RECURSIVE Split(_, _)
\* the parts of string s between dots, cur being the part under way
Split(s, cur) ==
    IF s = <<>> THEN <<cur>>
    ELSE IF Head(s) = DOT THEN <<cur>> \o Split(Tail(s), <<>>)
    ELSE Split(Tail(s), Append(cur, Head(s)))

RECURSIVE ToNum(_, _)
ToNum(g, base) ==
    IF g = <<>> THEN 0
    ELSE ToNum(SubSeq(g, 1, Len(g) - 1), base) * base + (g[Len(g)] - ZERO)

\* a part is read as strtoul(part, 0) reads it: octal after a leading zero,
\* decimal otherwise
IsOctal(g) == Len(g) > 1 /\ g[1] = ZERO
PartOk(g) ==
    /\ g # <<>>
    /\ \A k \in 1..Len(g) : g[k] \in ZERO..(ZERO + (IF IsOctal(g) THEN 7 ELSE 9))
PartValue(g) == IF IsOctal(g) THEN ToNum(Tail(g), 8) ELSE ToNum(g, 10)

\* v as w bytes, most significant first
BigEndian(v, w) == [i \in 1..w |-> (v \div (256 ^ (w - i))) % 256]

\* socket.inet_aton(addr) on a string of digits and dots (parts short enough
\* for their value to stay below 2^31): one to four parts, the last one
\* filling the bytes the others leave
inet_aton(addr) ==
    LET parts == Split(addr, <<>>)
        n == Len(parts)
    IN  IF /\ n \in 1..4
           /\ \A k \in 1..n : PartOk(parts[k])
           /\ \A k \in 1..(n - 1) : PartValue(parts[k]) <= 255
           /\ n = 1 \/ PartValue(parts[n]) < 256 ^ (5 - n)
        THEN Return([k \in 1..(n - 1) |-> PartValue(parts[k])]
                    \o BigEndian(PartValue(parts[n]), 5 - n))
        ELSE Raise("OSError")

\* Sysid.decode(data) on a host of the given byte order
Sysid_decode(order, data) ==
    IF Len(Slice(data, 0, 8)) # 8 THEN Raise("struct.error")
    ELSE IF unpack_native(order, Slice(data, 0, 4)) # MAGIC
    THEN Raise("ValueError")
    ELSE IF unpack_native(order, Slice(data, 4, 8)) # VERSION
    THEN Raise("ValueError")
    ELSE LET uuid == UUID_decode(Slice(data, 8, 24)) IN
    IF ~uuid.ok THEN uuid
    ELSE IF Len(Slice(data, 24, 28)) # 4 THEN Raise("struct.error")
    ELSE LET num == unpack_native(order, Slice(data, 24, 28)) IN
    IF ~(num[1] = 0 /\ num[2] <= 255) THEN Raise("ValueError")
    ELSE IF Len(data) # 28 + 4 * num[2] THEN Raise("ValueError")
    ELSE Return([magic |-> unpack_native(order, Slice(data, 0, 4)),
                 version |-> unpack_native(order, Slice(data, 4, 8)),
                 uuid |-> uuid.val,
                 addrs |-> [k \in 1..num[2] |->
                     quad_dotted(U32(Slice(data, 24 + 4 * k, 28 + 4 * k)))]])

\* sequences of four bytes one after the other
Flatten(ss) ==
    [i \in 1..(4 * Len(ss)) |-> ss[((i - 1) \div 4) + 1][((i - 1) % 4) + 1]]

\* the loop of Sysid.encode: the packed addresses one after the other, or
\* the error of the first inet_aton that fails
pack_addrs(addrs) ==
    LET pas == [k \in 1..Len(addrs) |-> inet_aton(addrs[k])]
        bad == {k \in 1..Len(addrs) : ~pas[k].ok}
    IN  IF bad = {}
        THEN Return(Flatten([k \in 1..Len(addrs) |-> pas[k].val]))
        ELSE pas[CHOOSE k \in bad : \A j \in bad : k <= j]

\* Sysid.encode writing the number of addresses in network byte order
Sysid_encode_net(order, sysid) ==
    LET uuid == UUID_encode(sysid.uuid)
        pas == pack_addrs(sysid.addrs)
    IN  IF ~uuid.ok THEN uuid
        ELSE IF ~pas.ok THEN pas
        ELSE Return(pack_native(order, sysid.magic)
                    \o pack_native(order, sysid.version)
                    \o uuid.val
                    \o Pack(<<Len(sysid.addrs) \div 65536,
                              Len(sysid.addrs) % 65536>>)
                    \o pas.val)

\* Sysid.encode() on a host of the given byte order
Sysid_encode(order, sysid) ==
    LET uuid == UUID_encode(sysid.uuid)
        pas == pack_addrs(sysid.addrs)
    IN  IF ~uuid.ok THEN uuid
        ELSE IF ~pas.ok THEN pas
        ELSE Return(pack_native(order, sysid.magic)
                    \o pack_native(order, sysid.version)
                    \o uuid.val
                    \o pack_native(order, <<Len(sysid.addrs) \div 65536,
                                            Len(sysid.addrs) % 65536>>)
                    \o pas.val)

\* Sysid.decode assigning each field as soon as it is decoded
Sysid_decode_self_eager(self, order, data) ==
    LET r == Sysid_decode(order, data)
        n == Len(data)
        magic == IF n >= 8 THEN unpack_native(order, Slice(data, 0, 4))
                 ELSE self.magic
        version == IF n >= 8 /\ magic = MAGIC
                   THEN unpack_native(order, Slice(data, 4, 8))
                   ELSE self.version
    IN  IF r.ok THEN [ok |-> TRUE, self |-> r.val]
        ELSE [ok |-> FALSE, err |-> r.err,
              self |-> [self EXCEPT !.magic = magic, !.version = version]]

\* self.decode(data) on an object that holds values already: the four
\* fields are assigned in the four statements before the return, which no
\* raise precedes
Sysid_decode_self(self, order, data) ==
    LET r == Sysid_decode(order, data) IN
    IF r.ok
    THEN [ok |-> TRUE,
          self |-> [self EXCEPT !.magic = r.val.magic,
                                !.version = r.val.version,
                                !.uuid = r.val.uuid,
                                !.addrs = r.val.addrs]]
    ELSE [ok |-> FALSE, err |-> r.err, self |-> self]

\* sysid.decode(data) on the object given
SysidDecodeSelf ==
    /\ "kind" \in DOMAIN hin /\ hin.kind = "self" /\ call.st = "idle"
    /\ \E r \in {Sysid_decode_self(hin.obj, hin.order, hin.data)} :
        call' = IF r.ok
                THEN [st |-> "decoded", fn |-> "Sysid.decode", self |-> r.self]
                ELSE [st |-> "raised", fn |-> "Sysid.decode", self |-> r.self,
                      err |-> r.err]
    /\ UNCHANGED <<file, handle, pos, io, gens, hin, hlog>>

\* the decoder and the encoder are run in turn, three calls at most, on the
\* input and then on what the call before returned; hlog keeps the calls
Trips == 3

\* Sysid().decode(data)
SysidDecode ==
    /\ "kind" \in DOMAIN hin /\ Len(hlog) < Trips
    /\ \/ hin.kind = "bytes" /\ call.st = "idle"
       \/ call.st = "encoded"
    /\ \E r \in {Sysid_decode(hin.order,
                    IF call.st = "idle" THEN hin.data ELSE call.data)} :
        call' = IF r.ok
                THEN [st |-> "decoded", fn |-> "Sysid.decode", obj |-> r.val]
                ELSE [st |-> "raised", fn |-> "Sysid.decode", err |-> r.err]
    /\ hlog' = Append(hlog, call')
    /\ UNCHANGED <<file, handle, pos, io, gens, hin>>

\* sysid.encode()
SysidEncode ==
    /\ "kind" \in DOMAIN hin /\ Len(hlog) < Trips
    /\ \/ hin.kind = "object" /\ call.st = "idle"
       \/ call.st = "decoded"
    /\ \E r \in {Sysid_encode(hin.order,
                    IF call.st = "idle" THEN hin.obj ELSE call.obj)} :
        call' = IF r.ok
                THEN [st |-> "encoded", fn |-> "Sysid.encode", data |-> r.val]
                ELSE [st |-> "raised", fn |-> "Sysid.encode", err |-> r.err]
    /\ hlog' = Append(hlog, call')
    /\ UNCHANGED <<file, handle, pos, io, gens, hin>>

-----
(* The sysid round trips *)

MaxAddrs == 2        \* addresses per sysid record

Digits(ds) == [i \in 1..Len(ds) |-> ZERO + ds[i]]
Dotted(gs) ==
    IF Len(gs) = 3
    THEN Digits(gs[1]) \o <<DOT>> \o Digits(gs[2]) \o <<DOT>> \o Digits(gs[3])
    ELSE Digits(gs[1]) \o <<DOT>> \o Digits(gs[2]) \o <<DOT>> \o Digits(gs[3])
             \o <<DOT>> \o Digits(gs[4])

\* "10.0.0.1", "255.255.255.255", "0.0.0.0", "1.2.3.04", "010.0.0.1",
\* "1.2.3.08", "1.2.3.256", "1.2.3"
AddrStrings ==
    {Dotted(<< <<1, 0>>, <<0>>, <<0>>, <<1>> >>),
     Dotted(<< <<2, 5, 5>>, <<2, 5, 5>>, <<2, 5, 5>>, <<2, 5, 5>> >>),
     Dotted(<< <<0>>, <<0>>, <<0>>, <<0>> >>),
     Dotted(<< <<1>>, <<2>>, <<3>>, <<0, 4>> >>),
     Dotted(<< <<0, 1, 0>>, <<0>>, <<0>>, <<1>> >>),
     Dotted(<< <<1>>, <<2>>, <<3>>, <<0, 8>> >>),
     Dotted(<< <<1>>, <<2>>, <<3>>, <<2, 5, 6>> >>),
     Dotted(<< <<1>>, <<2>>, <<3>> >>)}

AddrLists == UNION {[1..n -> AddrStrings] : n \in 0..MaxAddrs}

\* uuids whose fields fit, and one whose time_mid does not
Uuids ==
    {[time_low |-> <<0, 0>>, time_mid |-> 0, time_hi |-> 0, clock_hi |-> 0,
      clock_low |-> 0, node |-> <<0, 0, 0, 0, 0, 0>>],
     [time_low |-> <<118, 55272>>, time_mid |-> 3682, time_hi |-> 7640,
      clock_hi |-> 138, clock_low |-> 160,
      node |-> <<248, 1, 168, 192, 170, 119>>],
     [time_low |-> <<0, 1>>, time_mid |-> 65536, time_hi |-> 0, clock_hi |-> 0,
      clock_low |-> 0, node |-> <<0, 0, 0, 0, 0, 0>>]}

Orders == {"little", "big"}

\* objects to encode: the magic right or byte-swapped, up to MaxAddrs
\* addresses, and one object with 256 addresses
SysidObjects ==
    {[magic |-> magic, version |-> VERSION, uuid |-> uuid, addrs |-> addrs] :
        magic \in {MAGIC, <<48076, 34986>>}, uuid \in Uuids,
        addrs \in AddrLists}
    \cup {[magic |-> MAGIC, version |-> VERSION, uuid |-> uuid,
           addrs |-> [k \in 1..256 |-> Dotted(<< <<0>>, <<0>>, <<0>>, <<0>> >>)]] :
            uuid \in {u \in Uuids : u.time_low = <<0, 0>>}}

PackedAddrs == {<<10, 0, 0, 1>>, <<255, 255, 255, 255>>, <<0, 0, 0, 0>>}

\* byte strings to decode: magic, version and count in both byte orders,
\* right and wrong, with as many addresses as the count says or not; some
\* of them cut short or one byte too long; one with 255 addresses
SysidBytes ==
    LET whole ==
          {hm \o hv \o ub \o nb \o Flatten(ab) :
              hm \in {<<204, 187, 170, 136>>, <<136, 170, 187, 204>>},
              hv \in {<<1, 0, 0, 0>>, <<0, 0, 0, 1>>, <<2, 0, 0, 0>>},
              ub \in {[i \in 1..16 |-> 0], [i \in 1..16 |-> 16 * i - 1]},
              nb \in {<<0, 0, 0, 0>>, <<1, 0, 0, 0>>, <<0, 0, 0, 1>>,
                      <<2, 0, 0, 0>>, <<0, 1, 0, 0>>, <<0, 0, 1, 0>>},
              ab \in UNION {[1..n -> PackedAddrs] : n \in 0..MaxAddrs}}
        good ==
          {d \in whole : SubSeq(d, 5, 8) \in {<<1, 0, 0, 0>>, <<0, 0, 0, 1>>}
                         /\ Len(d) = 32}
    IN  whole
        \cup {SubSeq(d, 1, k) : d \in good, k \in {0, 7, 8, 23, 24, 27, 31}}
        \cup {Append(d, 0) : d \in good}
        \cup {hm \o hv \o [i \in 1..16 |-> i] \o nb
                 \o Flatten([k \in 1..255 |-> <<10, 0, k \div 16, k>>]) :
                 hm \in {<<204, 187, 170, 136>>}, hv \in {<<1, 0, 0, 0>>},
                 nb \in {<<255, 0, 0, 0>>}}

SysidInputs ==
    {[order |-> order, kind |-> "object", obj |-> obj] :
        order \in Orders, obj \in SysidObjects}
    \cup {[order |-> order, kind |-> "bytes", data |-> data] :
        order \in Orders, data \in SysidBytes}

\* no database file takes part
InitSysid ==
    /\ file = HashFile
    /\ handle = Closed
    /\ pos = 0
    /\ io = <<>>
    /\ gens = [g \in GenIds |-> NoGen]
    /\ call = Idle
    /\ hin \in SysidInputs
    /\ hlog = <<>>

NextSysid ==
    \/ SysidDecode
    \/ SysidEncode

SpecSysid == InitSysid /\ [][NextSysid]_vars

\* what call k was given: the input, or what call k - 1 returned
GivenTo(k) ==
    IF k = 1 THEN (IF hin.kind = "bytes" THEN hin.data ELSE hin.obj)
    ELSE IF hlog[k - 1].st = "decoded" THEN hlog[k - 1].obj
    ELSE hlog[k - 1].data

\* four parts of one to three decimal digits, each denoting 0..255
IsDottedQuad(addr) ==
    LET parts == Split(addr, <<>>) IN
    /\ Len(parts) = 4
    /\ \A k \in 1..Len(parts) :
          /\ Len(parts[k]) \in 1..3
          /\ \A j \in 1..Len(parts[k]) : parts[k][j] \in ZERO..(ZERO + 9)
          /\ ToNum(parts[k], 10) <= 255

\* a dotted quad in the form inet_ntoa prints: no part with a leading zero
\* but "0"
IsCanonical(addr) ==
    /\ IsDottedQuad(addr)
    /\ \A k \in 1..4 :
          LET g == Split(addr, <<>>)[k] IN Len(g) = 1 \/ g[1] # ZERO

FieldsFit(uuid) ==
    /\ uuid.time_mid \in 0..65535 /\ uuid.time_hi \in 0..65535
    /\ uuid.clock_hi \in 0..255 /\ uuid.clock_low \in 0..255

\* an object of the claim: valid magic and version, uuid fields of their
\* widths, at most 255 addresses each satisfying ok
ValidSysid(obj, ok(_)) ==
    /\ obj.magic = MAGIC /\ obj.version = VERSION
    /\ FieldsFit(obj.uuid)
    /\ Len(obj.addrs) <= 255
    /\ \A k \in 1..Len(obj.addrs) : ok(obj.addrs[k])

\* C20 as stated: re-encoding an accepted byte string gives the same bytes,
\* and encoding then decoding a Sysid with valid magic and version and at
\* most 255 dotted-quad addresses restores magic, version, uuid and the
\* address list
C20_RoundTrip ==
    \A k \in 2..Len(hlog) :
        /\ hlog[k].fn = "Sysid.encode" =>
              hlog[k].st = "encoded" /\ hlog[k].data = GivenTo(k - 1)
        /\ (hlog[k].fn = "Sysid.decode"
                /\ ValidSysid(GivenTo(k - 1), IsDottedQuad)) =>
              hlog[k].st = "decoded" /\ hlog[k].obj = GivenTo(k - 1)

\* C20 (amended): re-encoding an accepted byte string gives the same bytes;
\* encoding then decoding a Sysid with valid magic and version and at most
\* 255 addresses restores magic, version, uuid and the address list when
\* every address is a dotted quad written as inet_ntoa writes it (no
\* leading zero)
C20_RoundTripCanonical ==
    \A k \in 2..Len(hlog) :
        /\ hlog[k].fn = "Sysid.encode" =>
              hlog[k].st = "encoded" /\ hlog[k].data = GivenTo(k - 1)
        /\ (hlog[k].fn = "Sysid.decode"
                /\ ValidSysid(GivenTo(k - 1), IsCanonical)) =>
              hlog[k].st = "decoded" /\ hlog[k].obj = GivenTo(k - 1)

\* both round trips done in one run on a little-endian host: bytes with two
\* addresses decoded, encoded to the same bytes, and decoded again
C20_Witness ==
    /\ "kind" \in DOMAIN hin /\ hin.kind = "bytes" /\ hin.order = "little"
    /\ Len(hin.data) = 36
    /\ Len(hlog) = 3 /\ hlog[3].st = "decoded"
    /\ Len(hlog[3].obj.addrs) = 2
    /\ hlog[3].obj.addrs[1] # hlog[3].obj.addrs[2]

-----------------------------------------------------------------------------
(* Chains that loop *)

\* next pointers: a ring through all the records, a tail that runs into a
\* ring, a record that names itself, and chains that end in 0 or past the
\* end of the file
CycleShapes ==
    {[i \in RecIdx |-> E((i + 1) % NRec)],
     [i \in RecIdx |-> IF i = MaxRec THEN E(1) ELSE E(i + 1)],
     [i \in RecIdx |-> IF i = 0 THEN E(0) ELSE 0],
     [i \in RecIdx |-> IF i = MaxRec THEN 0 ELSE E(i + 1)],
     [i \in RecIdx |-> IF i = MaxRec THEN EndAddr ELSE E(i + 1)]}

\* name chains of these shapes in the bucket of "dc", with no record, the
\* first or the last record named "dc"; RW chains of these shapes
FilesCycle ==
    {LookupFile([i \in RecIdx |-> IF i = hit THEN NameA ELSE NameB], nn, head) :
        hit \in {-1, 0, MaxRec}, nn \in CycleShapes, head \in {E(0), E(MaxRec)}}
    \cup {WalkFile(nn, 0) : nn \in CycleShapes}

\* the program runs one chain walk to no end, or lookups
InitCycle == InitWith(FilesCycle)

NextCycle ==
    \/ Open
    \/ call.st = "idle" /\ StartNamehash(1)
    \/ call.st = "idle" /\ StartRwidhash(1)
    \/ HashPoll(1)
    \/ gens[1].kind = "none" /\ LookupCall
    \/ LookupStep

SpecCycle == InitCycle /\ [][NextCycle]_vars

\* the for loops keep asking for the next record
FairCycle == SpecCycle /\ WF_vars(HashPoll(1)) /\ WF_vars(LookupStep)

\* the next pointer of the kind stored in the record at address a
NextOf(field, a) == RawAt(file, a).w[FieldWord[field]]

\* the walk of generator 1 was started on a chain that runs into a cycle
WalkOnCycle ==
    /\ gens[1].kind = "hash" /\ gens[1].arg # <<>>
    /\ Chain(WalkerField[gens[1].fn], gens[1].arg[1]).end = "cycle"

\* record E(i) lies on the cycle of that chain
OnCycle(i) ==
    /\ WalkOnCycle
    /\ \E ch \in {Chain(WalkerField[gens[1].fn], gens[1].arg[1])} :
          \E k \in 1..Len(ch.addrs) : ch.addrs[k] = E(i)
    /\ \E ch \in {Chain(WalkerField[gens[1].fn],
                        NextOf(WalkerField[gens[1].fn], E(i)))} :
          \E k \in 1..Len(ch.addrs) : ch.addrs[k] = E(i)

\* the lookup under way or over ran on a chain that runs into a cycle and
\* holds no record of the name
LookupOnCycle ==
    /\ call.st \in {"walking", "returned", "raised"}
    /\ NameChain(call.name).end = "cycle"
    /\ Hits(call.name) = {}

\* C21, safety part: a walk on a chain with a cycle neither ends nor raises,
\* and a lookup on such a chain without the name neither returns nor raises
C21_NeverEnds ==
    /\ WalkOnCycle => gens[1].st \in {"new", "running"}
    /\ LookupOnCycle => call.st = "walking"

\* C21: there is no cycle detection: a chain walk on a chain with a cycle
\* never ends and yields every record of the cycle again and again, and a
\* lookup_name on such a chain ends if and only if a record with the name is
\* on the chain
C21_CyclicChainNeverEnds ==
    /\ []C21_NeverEnds
    /\ \A i \in RecIdx :
          OnCycle(i) ~> (gens[1].out # <<>> /\ gens[1].out[1].address = E(i))
    /\ (/\ call.st = "walking"
        /\ NameChain(call.name).end = "cycle"
        /\ Hits(call.name) # {})
          ~> call.st = "returned"

\* a walk on the cycle E(0) -> E(1) -> E(2) -> E(0) has come back to E(0)
\* after E(2)
C21_Witness ==
    /\ WalkOnCycle /\ gens[1].st = "running"
    /\ OnCycle(0) /\ OnCycle(1) /\ OnCycle(2)
    /\ gens[1].out # <<>> /\ gens[1].out[1].address = E(2)
    /\ gens[1].addr = E(0)

-----------------------------------------------------------------------------
(* The scan over corrupt databases *)

\* every layout scanned from headersize with eofPtr after NRec records or
\* past the file, and the files whose chains loop
FilesFinite ==
    {ScanFile(fl, P(0, 0), eof) :
        fl \in Layouts, eof \in {P(NRec, 1), P(NRec, 2) + 1}}
    \cup FilesCycle

InitFinite == InitWith(FilesFinite)

NextFinite ==
    \/ Open
    \/ StartScan(1)
    \/ ScanNext(1)

SpecFinite == InitFinite /\ [][NextFinite]_vars

\* the for loop over the scan keeps asking for the next record
FairFinite == SpecFinite /\ WF_vars(ScanNext(1))

\* the address the scan of generator 1 starts at
ScanStart ==
    IF gens[1].arg = <<>> THEN file.vlh.w[2] ELSE gens[1].arg[1]

\* the number of 148-byte steps from start up to eofPtr (none when the start
\* is at or past eofPtr)
MaxReads ==
    IF ScanStart >= file.vlh.w[4] THEN 0
    ELSE (file.vlh.w[4] - ScanStart + ENTRY_STEP - 1) \div ENTRY_STEP

\* C22, safety part: the addresses a scan reads start at its start address,
\* go up by 148 or 8192 from one read to the next, stay below eofPtr, and
\* are no more than ceil((eofPtr - start) / 148)
C22_Increasing ==
    (gens[1].kind = "scan" /\ gens[1].st # "new") =>
        LET v == gens[1].visited IN
        /\ v # <<>> => v[1] = ScanStart
        /\ \A k \in 2..Len(v) :
              v[k] - v[k - 1] \in {ENTRY_STEP, CONTBLOCK_SPAN}
        /\ \A k \in 1..Len(v) : v[k] < file.vlh.w[4]
        /\ \A j, k \in 1..Len(v) : j # k => v[j] # v[k]
        /\ Len(v) <= MaxReads

\* C22: the scan is finite whatever the chains are: its address goes up by
\* 148 or 8192 at every read, no address is read twice, it reads at most
\* ceil((eofPtr - start) / 148) records, and it ends (at or past eofPtr, or
\* with the error of a read)
C22_ScanIsFinite ==
    /\ []C22_Increasing
    /\ (gens[1].kind = "scan") ~> (gens[1].st \in {"done", "error"})

\* a scan has ended after yielding every record of a file whose name chain
\* is a ring through all of them
C22_Witness ==
    /\ gens[1].kind = "scan" /\ gens[1].st = "done"
    /\ Chain("nextNameHash", E(0)).end = "cycle"
    /\ Len(gens[1].out) = NRec
    /\ Len(gens[1].visited) = NRec + 1

-----------------------------------------------------------------------------
(* Indirect references out of range *)

\* C23: an indirect reference whose entry index is 0 or above 63, or whose
\* block index is above 4, is rejected before any read: the lookup raises
\* (the assertion of lookup_mh fails) having issued no read, so that the
\* block header at index 0 is never read as an entry
C23_OutOfRangeRejected ==
    (/\ Tagged
     /\ SlotIndex = 0 \/ SlotIndex > MAXINDEX \/ SlotBlock > MAXBLOCK) =>
        /\ call.st = "raised"
        /\ call.err = "AssertionError"
        /\ call.reads = <<>>
        /\ io = <<>>

\* slot 1 holding 0xFF000000 (block 0, index 0: the block's own header), in
\* a file that holds the block whole, has been looked up and rejected
C23_Witness ==
    /\ Tagged /\ call.number = 1 /\ SlotWord = <<65280, 0>>
    /\ file.size >= ServSizeFull
    /\ call.st = "raised" /\ io = <<>>

-----------------------------------------------------------------------------
(* Sysid.decode on an object that holds values *)

\* the objects decode is called on: a new Sysid(), and one that holds a
\* byte-swapped magic, another version, a uuid and two addresses
SelfObjects ==
    {[magic |-> MAGIC, version |-> VERSION,
      uuid |-> [time_low |-> <<0, 0>>, time_mid |-> 0, time_hi |-> 0,
                clock_hi |-> 0, clock_low |-> 0,
                node |-> <<0, 0, 0, 0, 0, 0>>],
      addrs |-> <<>>],
     [magic |-> <<48076, 34986>>, version |-> <<0, 2>>,
      uuid |-> [time_low |-> <<118, 55272>>, time_mid |-> 3682,
                time_hi |-> 7640, clock_hi |-> 138, clock_low |-> 160,
                node |-> <<248, 1, 168, 192, 170, 119>>],
      addrs |-> <<Dotted(<< <<1>>, <<2>>, <<3>>, <<0, 4>> >>),
                  Dotted(<< <<1, 9, 2>>, <<1, 6, 8>>, <<1>>, <<2, 4, 8>> >>)>>]}

InitSelf ==
    /\ file = HashFile
    /\ handle = Closed
    /\ pos = 0
    /\ io = <<>>
    /\ gens = [g \in GenIds |-> NoGen]
    /\ call = Idle
    /\ hin \in {[order |-> order, kind |-> "self", obj |-> obj, data |-> data] :
                  order \in Orders, obj \in SelfObjects, data \in SysidBytes}
    /\ hlog = <<>>

NextSelf == SysidDecodeSelf

SpecSelf == InitSelf /\ [][NextSelf]_vars

\* C24: Sysid.decode is all or nothing: when it raises, whatever the check
\* that failed, the object's magic, version, uuid and addrs are those it had
\* before the call; when it returns, all four are those of the data
C24_AllOrNothing ==
    /\ call.st = "raised" =>
          /\ call.self.magic = hin.obj.magic
          /\ call.self.version = hin.obj.version
          /\ call.self.uuid = hin.obj.uuid
          /\ call.self.addrs = hin.obj.addrs
    /\ call.st = "decoded" =>
          /\ call.self.magic = MAGIC /\ call.self.version = VERSION
          /\ Len(call.self.addrs) * 4 + 28 = Len(hin.data)

\* decode has raised on data with the right magic and version on a
\* little-endian host, called on an object that held another magic,
\* another version and two addresses
C24_Witness ==
    /\ call.st = "raised" /\ call.err = "ValueError"
    /\ hin.order = "little" /\ Len(hin.data) >= 28
    /\ unpack_native(hin.order, Slice(hin.data, 0, 4)) = MAGIC
    /\ unpack_native(hin.order, Slice(hin.data, 4, 8)) = VERSION
    /\ hin.obj.magic # MAGIC /\ Len(hin.obj.addrs) = 2

====
